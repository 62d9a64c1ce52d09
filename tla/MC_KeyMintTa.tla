---------------------------- MODULE MC_KeyMintTa ----------------------------
(* Small instances of KeyMintTa for TLC. *)
EXTENDS KeyMintTa, TLC

CONSTANTS b1, b2, a1, a2, i1, k1, k2, key1, key2, key3, key4

MC_BootInfos == {b1, b2}
MC_HalInfos == {a1, a2}
MC_AttIds == {i1}
MC_HmacKeys == {k1, k2}

(* key1 and key3 are single-use, key2 allows two uses, key4 is unlimited; *)
(* key2 and key4 need trusted presence, so two presence operations can   *)
(* collide.  Three use-counted keys overflow the two use-count slots.    *)
MC_Keys == {key1, key2, key3, key4}
MC_UsageLimit == (key1 :> 1) @@ (key2 :> 2) @@ (key3 :> 1) @@ (key4 :> NoLimit)
MC_PresenceKeys == {key2, key4}

(* For the root-of-trust runs, one unlimited presence key is enough. *)
MC_SbKeys == {key4}
MC_SbUsageLimit == key4 :> NoLimit
MC_SbPresenceKeys == {key4}

(* Two table slots fill up with two concurrent operations. *)
MC_MaxOperations == 2
MC_MaxUseCounted == 2
MC_MaxHandles == 4
MC_MaxChallenges == 2

MC_Symmetry == Permutations(MC_BootInfos) \cup Permutations(MC_HalInfos)
                 \cup Permutations(MC_HmacKeys)
=============================================================================
