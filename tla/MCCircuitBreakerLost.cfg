SPECIFICATION FairSpec
CONSTANTS
    i1 = i1
    i2 = i2
    c1 = c1
    c2 = c2
    Instances = {i1}
    Callers = {c1, c2}
    Home <- MCHomeOne
    Threshold = 2
    Window = 1
    Cooldown = 1
    Second = 1
    Attempts = 1
    MaxFaults = 1
PROPERTIES
    CooldownEnds
