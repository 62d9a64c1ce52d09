--------------------------- MODULE MC_KeyblobVersion ---------------------------
(* Small instance of KeyblobVersion: three version values, so that a       *)
(* keyblob's field can be below, equal to or above any latched value,      *)
(* including a latched OS version of zero; two security levels; up to two  *)
(* authorizations, so that two disagreeing fields can meet.                *)
EXTENDS KeyblobVersion, TLC

MC_Versions == 0..2
MC_Levels == {"TrustedEnvironment", "Strongbox"}
MC_LocalLevel == "TrustedEnvironment"
MC_MaxAuths == 2

=============================================================================
