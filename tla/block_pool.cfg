\* Goroutines and buffers have no names in the code, but a liveness property
\* forbids SYMMETRY.
SPECIFICATION PoolSpec
CONSTANTS
    Readers = {r1, r2}
    Blocks = {b1, b2, b3, b4, b5, b6}
    NoBlock = NoBlock
    MaxLoads = 2
    MaxCalls = 1
INVARIANTS PoolTypeOK NoSharing ReadsOwn AllReturned
PROPERTY CallsEnd
CHECK_DEADLOCK FALSE
