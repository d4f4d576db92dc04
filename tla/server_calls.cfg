\* Two handlers and the ingest thread; two rows in all, of two keys.
CONSTANTS
    Handlers = {h1, h2}
    Ingest = ingest
    Keys = {k1, k2}
    Users = {u1}
    Values <- OneValue
    MaxRows = 2
    None = None
SPECIFICATION Spec
INVARIANTS ConnectionReleased CleanPutStored CleanGetCurrent
PROPERTIES OnlyAcceptedRowsAdded RatingServiceSpec
SYMMETRY Symmetry
