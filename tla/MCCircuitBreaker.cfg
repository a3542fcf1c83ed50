SPECIFICATION Spec
CONSTANTS
    i1 = i1
    i2 = i2
    c1 = c1
    c2 = c2
    Instances = {i1, i2}
    Callers = {c1, c2}
    Home <- MCHomeApart
    Threshold = 2
    Window = 1
    Cooldown = 1
    Second = 2
    Attempts = 2
    MaxFaults = 1
SYMMETRY MCExchange
INVARIANTS
    LocalRefusalIsRecent
    SharedRefusalIsRecent
