CONSTANTS
    b1 = b1
    b2 = b2
    a1 = a1
    a2 = a2
    i1 = i1
    k1 = k1
    k2 = k2
    key1 = key1
    key2 = key2
    key3 = key3
    key4 = key4
    None = None
    NoLimit = NoLimit
    BootInfos <- MC_BootInfos
    HalInfos <- MC_HalInfos
    AttIds <- MC_AttIds
    HmacKeys <- MC_HmacKeys
    Keys <- MC_Keys
    UsageLimit <- MC_UsageLimit
    PresenceKeys <- MC_PresenceKeys
    MaxOperations <- MC_MaxOperations
    MaxUseCounted <- MC_MaxUseCounted
    MaxHandles <- MC_MaxHandles
    MaxChallenges <- MC_MaxChallenges
    IsStrongbox = FALSE
    HasClock = TRUE
    HasAttestIds = FALSE
    EncodeMayFail = FALSE
SPECIFICATION Spec
SYMMETRY MC_Symmetry
PROPERTY BootInfoOnlyInEarlyBoot
