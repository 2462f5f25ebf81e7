SPECIFICATION Spec
CONSTANTS
    a = a
    b = b
    m1 = m1
    d1 = d1
    c1 = c1
    s1 = s1
    Plugins = {a, b}
    Models = {m1}
    Devices = {d1}
    Conns = {c1}
    Props = {}
    Descs = {s1}
    Dirs <- Directories
    DefaultDir <- Defaults
    InitDisks <- Disks
    NoPlugin = NoPlugin
    NoDevice = NoDevice
    NoDir = NoDir
    NilMap = NilMap
INVARIANTS
    CacheIsConsistent
    ShadowsHaveDevices
PROPERTIES
    LoadRestoresFiles
