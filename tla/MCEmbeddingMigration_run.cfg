SPECIFICATION FairSpec
CONSTANTS
    Runner = {r1}
    N = 5
    BatchSize = 2
    MaxEdits = 2
    None = None
INVARIANTS ProgressCovered CompletedIsComplete
PROPERTIES CompletesOnItsSource RunEnds
