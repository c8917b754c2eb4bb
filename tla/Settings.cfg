CONSTANTS
    IntMax = 7
    MaxVolume = 4
    Low <- MCLow
    High <- MCHigh
    Grain = 3
    Defaults <- MCDefaults
    Volumes <- MCVolumes
    Numbers = {4, 10}
    Files <- MCFiles
SPECIFICATION Spec
INVARIANTS
    TypeOK
    PlayerMatchesConfig
PROPERTY KeptSettingsSurvive
