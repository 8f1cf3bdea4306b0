SPECIFICATION Spec
CONSTANTS
    N = 3
    Top = 2
    Half = 2
    MaxPrune = 2
    Nights <- DuplicateNights
    UserOps = {}
    MaxEdits = 0
PROPERTIES SurvivorIsValid
