SPECIFICATION Spec
CONSTANTS
    h1 = h1
    h2 = h2
    p1 = p1
    p2 = p2
    Host = {h1, h2}
    Proc = {p1, p2}
    HostOf <- TwoHosts
    Content = {c1, c2}
    None = None
    Genesis = Genesis
    MaxSeq = 2
SYMMETRY ContentSymmetry
INVARIANTS LogIsChain ServedWasPublished
PROPERTIES NoStaleAnswer
