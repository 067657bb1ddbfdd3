\* Directories of up to four children, listed in pages with a failing block.
SPECIFICATION Spec
CONSTANTS
    BlockSize = 10
    DirentSize = 2
    Directories <- MCDirectories
    Pages = {0, 1, 2}
    MaxFails = 1
INVARIANTS PackedAsPlanned FoundIffThere ParsedRight ListedOnce
PROPERTY ListingEnds
CHECK_DEADLOCK FALSE
