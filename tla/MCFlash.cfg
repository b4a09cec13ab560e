SPECIFICATION Spec
CONSTANTS
    Pages = 3
    MaxWrites = 6
CHECK_DEADLOCK FALSE
INVARIANTS
    TypeOK
    ReadBack
    NothingOlder
