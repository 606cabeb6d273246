SPECIFICATION Spec
CONSTANTS
    Calls = {c1, c2}
    Streams = {c1}
    Items = 2
    QueueMax = 1
    DrainMax = 1
    BufferMax = 1
    Workers = 1
    MaxCrash = 1
INVARIANTS CallsAccounted StreamExact RunsAreTracked
CHECK_DEADLOCK FALSE
