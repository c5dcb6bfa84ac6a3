SPECIFICATION DamagedSpec
CONSTANTS
    s = s  a = a  b = b
    Urls = {s, a, b}
    Start = s
    MaxDepth = 1
    MaxPages = 2
    MaxRechecks = 1
    MaxFaults = 2
PROPERTY
    RefusedOnlyIfChanged
