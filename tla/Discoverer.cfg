CONSTANTS
    Dirs <- MCDirs
    Regular <- MCRegular
    Others <- MCOthers
    Playable <- MCAudio
    Parent <- MCParent
    Length <- MCLength
    Args <- MCArgs
    PathMax = 9
SPECIFICATION DSpec
INVARIANTS
    DTypeOK
    BufferIsTheDirectory
    FailuresAreLocal
