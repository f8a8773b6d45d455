CONSTANTS
    i1 = i1
    i2 = i2
    i3 = i3
    k1 = k1
    k2 = k2
    None = None
    Config <- ThreeInfos
    Infos = {i1, i2, i3}
    Ipspub <- TwoKeys
    Clients = {}
    MaxRestarts = 0
SPECIFICATION Spec
PROPERTIES AllServeAll
CHECK_DEADLOCK FALSE
