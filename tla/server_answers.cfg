\* Liveness; one key and one row are enough for every step of a call.
CONSTANTS
    Handlers = {h1, h2}
    Ingest = ingest
    Keys = {k1}
    Users = {u1}
    Values <- OneValue
    MaxRows = 1
    None = None
SPECIFICATION FairSpec
PROPERTY CallsAnswered
