SPECIFICATION Spec
CONSTANTS
    Runner = {r1}
    N = 3
    BatchSize = 2
    MaxEdits = 0
    None = None
INVARIANTS CandidateResumable
