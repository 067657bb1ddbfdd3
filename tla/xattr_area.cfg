SPECIFICATION AreaSpec
CONSTANTS
    ByteWrap = 4
    BlockSize = 16
    Inlines <- MCInlines
    Shareds <- MCShareds
    Tails <- MCTails
INVARIANTS WindowTracks DecodedAsSet DecodersAgree
CHECK_DEADLOCK FALSE
