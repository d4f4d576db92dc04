\* Two ratings of one key that differ.
CONSTANTS
    Handlers = {h1}
    Ingest = ingest
    Keys = {k1}
    Users = {u1, u2}
    Values <- TwoValues
    MaxRows = 2
    None = None
SPECIFICATION Spec
PROPERTY AverageOverAllRatings
