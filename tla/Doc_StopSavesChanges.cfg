CONSTANTS
    a = a
    b = b
    m1 = m1
    d1 = d1
    c1 = c1
    v1 = v1
    s1 = s1
    s2 = s2
    Plugins = {a, b}
    Models = {m1}
    Devices = {d1}
    Conns = {c1}
    Props = {v1}
    Descs = {s1, s2}
    Dirs <- MCDirs
    DefaultDir <- MCDefaultDir
    InitDisks <- MCDisks
    NoPlugin = NoPlugin
    NoDevice = NoDevice
    NoDir = NoDir
    NilMap = NilMap
SPECIFICATION Spec
PROPERTIES
    StopSavesChanges
