# Formal models of the KeyMint TA and keyblob engine

This directory holds TLA+ models of the Rust KeyMint trusted application in
`src/`. It has TLC configurations that check the models on small instances and
TLAPS proofs of the main TA invariants for every instance. `PROJECT.json` lists
four things:

- the components, modelled or not;
- the runs;
- the mutants that show each property can fail;
- the source lines each definition translates (`map`).

## The system and how its parts interact

| Part | Source | What it does |
|---|---|---|
| TA dispatcher | `ta/src/lib.rs` | `KeyMintTa::process` decodes a request and runs one handler to completion. The TA is single-threaded, so each handler is one atomic step. The TA holds the latched start-of-day state, the early-boot flag, the lock state, the StrongBox root-of-trust challenge, the operation table, the use-count table and `presence_required_op`. |
| Keyblob engine | `common/src/keyblob.rs` | `encrypt` and `decrypt` seal and open key material. The KEK is HKDF-derived from the characteristics, the hidden parameters and the secure-deletion data (if any). `SlotHolder` reserves a secure-deletion slot and releases it when sealing fails. |
| Version check | `ta/src/lib.rs` 266-355 | `keyblob_decrypt` checks the keyblob's version fields at the TA's security level (`characteristics_at`) against the latched HAL info and boot info. It may ask for an upgrade or reject the keyblob. |
| RKP | `ta/src/rkp.rs` | Builds device info from the latched state and the attestation-ID cache. |
| HAL conversions | `hal/src/hal.rs` | Pure type conversions. Not modelled. |

The components interact through shared state:

- The version check reads the TA's latched `hal_info` and `boot_info`.
- Keyblob binding reads the TA's `rot_data`, which is part of the hidden
  parameters.
- `delete_key` and `delete_all_keys` go from the TA straight to the
  secure-deletion manager.

## Modules

### `Keyblob.tla` (plus `MC_Keyblob.tla`)

This module models `encrypt`, `decrypt`, `SlotHolder`, `delete_key` and
`delete_all_keys`.

State:

| Variable | Meaning |
|---|---|
| `sdd` | The secret held by each slot of the manager. |
| `nextSecret` | A counter; every secret `new_secret` hands out is fresh. |
| `blobs` | Every keyblob returned. A keyblob records its characteristics, hidden parameters, slot and KEK. |
| `deleted` | The keyblobs the host asked to delete. |
| `rsp` | The last response. |

The KEK is the tuple of the inputs `derive_kek` concatenates. AES-GCM succeeds
exactly when the re-derived KEK equals the sealed one.

`Encrypt` has one disjunct per arm of the `match` at keyblob.rs 273-287:

- no secure-deletion data needed;
- needed but no manager;
- no free slot;
- a slot reserved. On a slot reservation, the AES step may fail, and then
  `SlotHolder::drop` releases the slot. `DeleteMayFail` says whether that
  release may itself fail.

`Presentable` covers a host that re-encodes a keyblob with other
characteristics or another slot. The CBOR envelope is not authenticated, so
`Decrypt` receives any such keyblob.

### `KeyMintTa.tla` (plus `MC_KeyMintTa.tla`)

Each variable is the field of `KeyMintTa` with the same name. The exceptions:

- `devIds` is the device's ID store.
- `begun` is a history variable counting the operations begun on each key.

There is one action per handler: `SetBootInfo`, `SetHalInfo`,
`SetAttestationIds`, `ComputeSharedSecret`, `EarlyBootEnded`, `DeviceLocked`,
`GetRootOfTrustChallenge`, `GetRootOfTrust`, `SendRootOfTrust`,
`DestroyAttestationIds`, `GenerateCertificateRequest`, `Begin` and
`EndOperation` (finish or abort). Each handler's guards and error returns
follow `process_req`. The ID store's `destroy_all` is not under `src/`, so
`DestroyAttestationIds` lets it succeed (the IDs are gone) or fail (they stay).

`UpdateUseCount` is `update_use_count` line by line:

1. Find the key's slot, stopping early.
2. Otherwise take the first free slot.
3. Compare with `>=`, then increment.

Some code is not under `src/`: the operation engine (`begin_operation`, the
handle, the presence marker) and `compute_shared_secret`. Those parts are
modelled from the spec and marked `spec_modelled` in the map.

### `KeyblobVersion.tla` (plus `MC_KeyblobVersion.tla`)

This module models the version check of `keyblob_decrypt` as a pure function:

- `CharacteristicsAt` takes the first entry at the level.
- `ParamCheck` is one loop iteration, including the special case for OS
  version 0 and the skip when a latched value is `None`.
- `VersionCheck` is the loop with its early return, written as a recursive
  function.

A single `Unseal` step evaluates the check on every keyblob of up to two
authorizations, under every latched configuration. `Auths` draws only
authorization lists with no version tag repeated. `add_keymint_tags`
(lib.rs 1079-1087) writes each version tag once, and the KEK binds the
characteristics, so a host cannot present any other list. `SpecVerdict` is the spec's
per-field classification, written independently as a reference.

### `KeyMintTaProofs.tla`

This module holds the TLAPS proofs. It extends `KeyMintTa`, which reaches no
RECURSIVE definition.

## Runs

| Run | Checks | Shows |
|---|---|---|
| `keyblob_safety` (pass) | `SlotOwnership`, `UnsealNeedsAuthenticContext`, `DeletedKeyStaysDead`, `RollbackResistanceHonoured` | Covers sealing, tampered unsealing, deletion and slot reuse. See the note after the table. |
| `keyblob_nostorage` (pass) | `RollbackResistanceHonoured`, `UnsealNeedsAuthenticContext` | With no manager, a key that needs rollback resistance is refused. |
| `keyblob_staledelete` (violation) | `LiveKeyUsable` | A repeated `delete_key` of a deleted keyblob whose slot was reused kills a live key. |
| `keyblob_releasefails` (violation) | `SlotOwnership` | A failing release in `SlotHolder::drop` leaks the slot. |
| `ta_ops` (pass, TEE) | `PresenceExclusive`, `UseLimitRespected`, `UseCountLedger`, `LatchedOnce` | Checks the operation and use-count tables under every interleaving of requests. |
| `ta_strongbox` (pass) | `LatchedOnce` | No handler overwrites latched state, including `send_root_of_trust` and `set_attestation_ids`. |
| `ta_bootlate` (violation) | `BootInfoOnlyInEarlyBoot` | `set_boot_info` after early boot still latches (lib.rs:410 logs but does not return). |
| `ta_sbrot` (violation) | `RootOfTrustAvailable` | `send_root_of_trust` never sets `rot_data`. |
| `ta_idcache` (violation) | `AttestIdsGoneAfterDestroy` | The TA's ID cache survives `destroy_attestation_ids`. |
| `ta_rotencode` (violation) | `RotDataMatchesBoot` | A failed root-of-trust encoding becomes a constant shared by every boot state. |
| `version_verdict` (pass) | `VerdictMatchesSpec` | The verdict is always one the spec's classification allows. |

What `keyblob_safety` shows:

- Every occupied slot belongs to exactly one live keyblob.
- Only the authentic characteristics and context open a keyblob.
- A deleted key is dead. This holds only because the run sets
  `DeleteMayFail = FALSE`. `delete_key` logs a failing `delete_secret` and
  still returns Ok (lib.rs 912-914), and `keyblob_releasefails` shows what a
  failing delete does to the slots.
- A key that needs rollback resistance always has a slot.

Each violation run is a finding in `PROJECT.json`.

Each property of a pass run also has a mutant in `PROJECT.json`: a plausible
bug in a mapped definition, such as the comparison off by one or the slot not
released, which TLC must catch.

Some properties are deliberately not in the pass runs:

- The type invariants `TypeOK`. No plausible bug in the code changes only the
  model's types. `KeyMintTa`'s `TypeOK` is proved, and the other proofs rest
  on it.
- `RotDataMatchesBoot`. When encoding cannot fail, `set_boot_info` writes
  `boot_info` and `rot_data` together under one `is_none` guard, so the
  property only restates that assignment. It is kept as the property of
  `ta_rotencode`, where the encoding fails.

### Bounds

The bounds are as small as they can be while each hazard still happens:

| Module | Bound | Why it is enough |
|---|---|---|
| `Keyblob` | two slots, three keyblobs, four secrets | A slot is reused after a delete, and a new-key failure happens with the table full. |
| `KeyMintTa` | two use-count slots, four keys | The table fills and refuses a third limited key. |
| `KeyMintTa` | limits 1 and 2 | A limit is reached and then refused. |
| `KeyMintTa` | two presence keys | A second presence operation conflicts. |
| `KeyMintTa` | two operation slots, four handles | Operations interleave and a slot is freed by finish or abort and taken by a later begin. |
| `KeyMintTa` | two values per latched input | An overwrite would be visible. |
| `KeyblobVersion` | values 0..2, two authorizations | The special case for zero and every comparison outcome are exercised, and two disagreeing fields meet. |

Symmetry is used only over model values that no definition tells apart (boot
infos, HAL infos, HMAC keys, slots, hidden values).

## Fairness

Every property is a safety property, so no fairness is assumed. The TA only
runs when the host calls it. Nothing in the code forces a request to arrive, so
weak fairness on a handler would not be justified.

## Proofs (`KeyMintTaProofs.tla`)

The proofs hold for all values of the constants that satisfy
`KeyMintTaAssumption` and `NoneAssumption`: any table sizes, any limits and any
key sets.

- **`TypeCorrect`**: `Spec => []TypeOK`.
  - It rests on `UpdateUseCountShape`, which states what `update_use_count`
    returns. The update touches one slot `idx`, with count `c`, and one of two
    things is true:
    - `idx` is the key's entry, and it is no later than any entry of that key;
    - or `idx` was free and no slot held the key.
  - `MinOfIsLeast` (well-founded minimum on `Nat`) supports `UpdateUseCountShape`.
- **`UseLimitHolds`**: `Spec => []UseLimitRespected`. A key limited to `n`
  never has more than `n` operations begun.
  - `UseLimitRespected` alone is not inductive, because a second entry for
    the same key would restart its count. The proof therefore uses the
    inductive strengthening `TypeOK /\ UseCountLedger`, which says:
    - a key has at most one entry;
    - a limited key with no entry has begun nothing;
    - the operations begun are at most the entry's count, which is at most
      the limit.
  - `LedgerStepLimited` and `LedgerStepUnlimited` show that `Begin` preserves
    it, whatever the outcome.
- **`PresenceHolds`**: `Spec => []PresenceExclusive`. At most one operation
  that needs presence is in the table, and `presence_required_op` names it.
  - It is inductive together with `TypeOK`.
  - `BeginOk` sets the marker only when it is `None`.
  - `EndOperation` clears the marker exactly when the ending operation holds
    it.

TLC also checks `UseLimitRespected`, `UseCountLedger` and `PresenceExclusive` on the `ta_ops` instance.

## Checked by TLC only

Some properties are not proved and rest only on TLC.

- The `Keyblob` and `KeyblobVersion` properties are TLC-only. `KeyblobVersion`
  uses a recursive function over the authorization list. What the list walk
  computes for every input would need induction over data, which is out of the
  provers' reach.
- `LatchedOnce` is also checked only by TLC.
- No liveness or `ENABLED` reasoning is attempted.

## Not modelled

- The CBOR codec, byte framing, and the HAL conversions in `hal.rs`. These are
  pure data conversions. The fuzz target covers decoding.
- Key generation, import, upgrade and attestation-chain building. Their
  handlers live outside `src/`.
- `add_rng_entropy`, which changes no state that is modelled.
- Operation `update` / `update_aad`, which change only crypto state.
- Real cryptography: the KEK and HMACs are abstract values.

## Planned next

- A `KeyMintSystem` module that composes `KeyMintTa` and `Keyblob`, so that
  `rot_data` feeds the hidden parameters and the version check gates unseal.
- A refinement of the TA's latched configuration onto an abstract write-once
  register.
