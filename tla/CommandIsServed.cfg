SPECIFICATION Spec
CONSTANTS
    Viewers = {v1}
    t1 = t1
    t2 = t2
    noTwin = noTwin
    Twins = {t1, t2}
    NoTwin = noTwin
    Capacity = 2
    WireCap = 1
    MaxEvents = 4
    twin = twin
    device = device
    noPly = noPly
    hole = hole
    a1 = a1
    a2 = a2
    a3 = a3
    b1 = b1
    b2 = b2
    Downloads = {d1, d2}
    SplatTwins = {twin}
    SplatDevices = {device}
    Paths = {p1}
    DirOf <- MCDirOf
    Versions <- MCVersions
    NoPly = noPly
    Hole = hole
    Provers = {q1, q2}
    SecretKeys = {k1}
    BadKey = badKey
    SealedTwins = {s1}
    Licenses = {cc, mit}
    DefaultLicense = cc
    MaxSecond = 3
    Callers = {c1}
    Scenes = {"call"}
    MaxRestarts = 1
INVARIANT CommandIsServed
CHECK_DEADLOCK FALSE
