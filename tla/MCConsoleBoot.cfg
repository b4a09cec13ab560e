CHECK_DEADLOCK FALSE
SPECIFICATION Spec
CONSTANTS
    Secret = {s1}
    Payload = {p1}
    LongPayload = {}
    Garbled = garbled
    Entropy = 1
    WizardSteps = 1
    Required = 1
    BootTimeout = 1
    FlushTimeout = 1
    TermtestLen = 1
    MaxTicks = 1
    MaxDialogs = 2
INVARIANTS
    BootAlwaysOnYes
