\* One File at a time, with errors; a data file that ends on a block, or the spool.
SPECIFICATION Spec
CONSTANTS
    File = {a, b}
    BlockSize = 2
    MaxCount = 1
    Prior = 2
    Sequential = TRUE
    MaxLen = 3
    MaxStore = 10
SYMMETRY Symmetric
INVARIANTS TypeOK Faithful ChunksInDevice
PROPERTY EarlierFilesKept
CHECK_DEADLOCK FALSE
