SPECIFICATION Spec
CONSTANTS
    Natives <- MCNatives
    Given <- OneLayered
    BlockSizes = {1, 2}
    DefaultBlock = 1
    MaxImages = 2
    MaxCopies = 3
INVARIANTS TypeOK ResolvesOwn OneUnit
CHECK_DEADLOCK FALSE
