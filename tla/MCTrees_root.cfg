SPECIFICATION TreesSpec
CONSTANTS
    MaxN = 5
    Values = {0, 1, 2}
    Key = {1, 2, 3, 4}
    Value = {v1, v2}
    Time = {0, 1}
    MaxSize = 3
    Nothing = Nothing
    MaxEntries = 2
    MaxInserts = 5
    Boxes <- FiveBoxes
    Queries <- Windows
    NoBox = NoBox
    Unsigned = Unsigned
    Categories = {1, 2, 3}
    Data = {d1, d2}
INVARIANTS DriftIsSeen
