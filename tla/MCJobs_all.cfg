SPECIFICATION JobsSpec
CONSTANTS
    N = 3
    Top = 2
    Half = 2
    MaxPrune = 2
    Nights <- AnyNight
    UserOps = {"importance", "utility", "invalidate"}
    MaxEdits = 1
    c1 = c1
    c2 = c2
    t3 = t3
    Conn = {c1, c2}
    None = None
    Task = {t1, t2, t3}
    ConnOf <- OneAndTwo
    Curve <- Growth
    Deltas <- Drifts
    Start = {5000}
    Full = 10000
    TraitTop = 4
    Middle = 2
    DriftCap = 1
    Caps = {None, 0, 2}
    Deleted = Deleted
    Unset = Unset
    MaxIds = 2
    MaxOps = 3
    Memories = 3
    Entity = Entity
    Similarities <- Chain
    Domains <- TwoDomains
    Everything = Everything
    work = work
    home = home
    Builder = {b1, b2}
    MaxBuilds = 3
    MaxChanges = 1
    MaxN = 5
    Values = {0, 1, 2}
    Key = {1, 2, 3, 4}
    Value = {v1, v2}
    Time = {0, 1}
    MaxSize = 3
    Nothing = Nothing
    MaxEntries = 2
    MaxInserts = 5
    Boxes <- FiveBoxes
    Queries <- Windows
    NoBox = NoBox
    Unsigned = Unsigned
    Categories = {1, 2, 3, 4}
    Data = {d1, d2}
SYMMETRY BuilderSymmetry
CHECK_DEADLOCK FALSE
CONSTRAINT OneAtATime
INVARIANTS LastOneStands OpenHasOwner ActivationsCount GrowthIsCount CleanBuildIsExact ContradictionIsTorn SumsAreExact SearchIsExact IntegrityIsExact ProofsBind
PROPERTIES ReplayProtects ImplementsLruCache
