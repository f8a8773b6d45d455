CONSTANTS
    i1 = i1
    i2 = i2
    i3 = i3
    k1 = k1
    k2 = k2
    None = None
    Config <- ThreeInfos
    Infos = {i1, i2}
    Ipspub <- TwoKeys
    Clients = {c1}
    MaxRestarts = 1
SPECIFICATION Spec
INVARIANTS TypeOK OncePerKey
PROPERTIES TargetServesAll OthersServeSome ClientServed
CHECK_DEADLOCK FALSE
