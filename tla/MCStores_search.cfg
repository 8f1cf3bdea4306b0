SPECIFICATION StoresSpec
CONSTANTS
    Memories = 2
    Near = 2
    Categories = {fact, rule}
    AnyCategory = AnyCategory
    Limit = 1
    NoRow = NoRow
    Null = Null
    Stores = {u1, u2}
    Searches = {s1, s2}
    Descs = {1, 2}
    Queries <- ShortAndLong
    Types = {deploy, debug}
    AnyType = AnyType
    TopK = 2
    N = 2
SYMMETRY TaskSymmetry
INVARIANTS BothForms UntouchedIsFound NothingForeign TrieIsSound TrieIsComplete ResultsAreWhole
