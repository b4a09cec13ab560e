SPECIFICATION AudioSpec
CONSTANTS
    DacQueueLen = 3
    Chunk = {c1, c2}
    Silence = Silence
    Garbage = Garbage
    BufNum = 4
    Wrap = 11
INVARIANTS
    TypeOK
    NoBlockReuse
    BusyIsTrue
    AdcTypeOK
    InStep
    ClockRight
PROPERTY
    ImplementsPipe
