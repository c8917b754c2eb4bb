CONSTANTS
    Playlists <- MCPlaylists
    Paths <- MCPaths
SPECIFICATION PFSpec
INVARIANTS
    PFTypeOK
    SavedIsLoaded
    DamageIsBounded
    LoadedIsPlain
