CHECK_DEADLOCK FALSE
SPECIFICATION Spec
CONSTANTS
    Secret = {s1, s2}
    Payload = {p1, p2, long}
    LongPayload = {long}
    Garbled = garbled
    Entropy = 2
    WizardSteps = 2
    Required = 1
    BootTimeout = 2
    FlushTimeout = 1
    TermtestLen = 2
    MaxTicks = 1
    MaxDialogs = 3
INVARIANTS
    EnterAlwaysDoesAsAsked
SYMMETRY Symmetry
