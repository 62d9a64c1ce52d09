CONSTANTS
    s1 = s1
    s2 = s2
    h1 = h1
    h2 = h2
    NoSlot = NoSlot
    Slots <- MC_Slots
    Hidden <- MC_Hidden
    MaxBlobs <- MC_MaxBlobs
    MaxSecrets <- MC_MaxSecrets
    Authorizations <- MC_Authorizations
    HasSddMgr = TRUE
    DeleteMayFail = TRUE
SPECIFICATION Spec
SYMMETRY MC_Symmetry
INVARIANT SlotOwnership
