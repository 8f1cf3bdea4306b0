SPECIFICATION SoulSpec
CONSTANTS
    Session = {s1}
    Id = {i1}
    Vec = {v1}
    None = None
    Native = TRUE
    MaxTasks = 1
    MaxWrites = 1
INVARIANTS NothingStranded
