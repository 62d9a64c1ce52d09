----------------------------- MODULE MC_Keyblob -----------------------------
(* Small instances of Keyblob for TLC. *)
EXTENDS Keyblob, TLC

CONSTANTS s1, s2, h1, h2

MC_Slots == {s1, s2}
MC_Hidden == {h1, h2}

(* The two authorizations requires_sdd matches; the empty set stands for *)
(* every key without them. *)
MC_Authorizations == {"RollbackResistance", "UsageCountLimit(1)"}

(* Two slots and three keyblobs: a slot is reused after a delete, and a  *)
(* third key finds both slots taken.  Four secrets cover three seals and *)
(* one failed seal that reserved a slot.                                 *)
MC_MaxBlobs == 3
MC_MaxSecrets == 4

MC_Symmetry == Permutations(MC_Slots) \cup Permutations(MC_Hidden)
=============================================================================
