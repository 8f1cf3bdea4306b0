SPECIFICATION SoulSpec
CONSTANTS
    Session = {s1, s2}
    Id = {i1, i2}
    Vec = {v1, v2}
    None = None
    Native = TRUE
    MaxTasks = 2
    MaxWrites = 3
SYMMETRY DataSymmetry
INVARIANTS SidecarBound Findable StoreHasBackend 
PROPERTIES LoadedIsCanonical
