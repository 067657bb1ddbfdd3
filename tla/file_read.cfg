SPECIFICATION Spec
CONSTANTS
    BlockSize = 8
    Compact = 2
    Extended = 4
    Places <- Everywhere
    Sizes <- UpToThreeBlocks
    Requests = {1, 3, 8, 40}
    Losses <- AnyLoss
    Eager = {FALSE, TRUE}
INVARIANTS InOrder AllRead
PROPERTY ReadEnds
CHECK_DEADLOCK FALSE
