SPECIFICATION FairSpec
CONSTANTS
    app = app
    reader = reader
    other = other
    t1 = t1
    t2 = t2
    t3 = t3
    t4 = t4
    narrow = narrow
    wide = wide
    Backends = {app, reader, other}
    Tasks = {t1, t2, t3, t4}
    Home <- AppHome
    Contracts = {narrow, wide}
    Dim <- TheDim
    Wants <- TheirWants
    Migrators = {app, other}
    Dims = {3, 4}
    Nobody = Nobody
    NoReceipt = NoReceipt
INVARIANTS ReadyAgrees NoCollision OnePool
PROPERTIES NoPartialMigration CallsEnd
