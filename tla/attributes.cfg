SPECIFICATION Spec
CONSTANTS
    Wrap = 4
    Owners = {5}
    Links = {0, 5}
    Secs = {0, 1}
    Nanos = {0, 1}
    BuildTimes <- NoNanos
    Specials = {TRUE}
    Walks = {FALSE, TRUE}
    MaxOps = 2
    MaxImages = 3
INVARIANTS ReadAsSet LinksCounted 
CHECK_DEADLOCK FALSE
