SPECIFICATION Spec
CONSTANTS
    Byte <- MCByte
    Nul = Nul
    Marker <- MCMarker
    MaxOutputBytes = 8
    Chunk = 3
    Noise <- MCNoise
    Texts <- MCTexts
    Files <- MCFiles
    MaxEntries = 2
    None = None
INVARIANTS
    SpoolWhole
    SudoOutputExact
    RefusalSound
    RangeExact
    ListComplete
CHECK_DEADLOCK FALSE
