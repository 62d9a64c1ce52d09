CONSTANTS
    None = None
    Versions <- MC_Versions
    Levels <- MC_Levels
    LocalLevel <- MC_LocalLevel
    MaxAuths <- MC_MaxAuths
SPECIFICATION Spec
INVARIANT VerdictMatchesSpec
