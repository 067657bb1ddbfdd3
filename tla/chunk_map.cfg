SPECIFICATION ChunkSpec
CONSTANTS
    BlockSize = 2
    GlobalBits = {0, 1}
    MaxBits = 3
    CountWrap = 4
    AddrWrap = 32
    Mapped <- TwoDevices
    Sources <- MCSources
    Foreign <- MCForeign
    MaxRecopies = 2
INVARIANTS MappedRight DirectAgrees
CHECK_DEADLOCK FALSE
