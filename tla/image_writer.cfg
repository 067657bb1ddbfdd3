\* Every list of a root and two entries from the shapes.
SPECIFICATION Spec
CONSTANTS
    BlockSize = 512
    Devices = 1
    Inputs <- Every
INVARIANTS TypeOK PlanSound WrittenAsPlanned SuperCountsAll
CHECK_DEADLOCK FALSE
