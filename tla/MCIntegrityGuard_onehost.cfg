SPECIFICATION FairSpec
CONSTANTS
    h1 = h1
    h2 = h2
    p1 = p1
    p2 = p2
    Host = {h1}
    Proc = {p1, p2}
    HostOf <- OneHost
    Content = {c1, c2}
    None = None
    Genesis = Genesis
    MaxSeq = 2
PROPERTIES CommitOverVerified CommitAgrees ImplementsVerifiedLog SealRecovers LockReleased
