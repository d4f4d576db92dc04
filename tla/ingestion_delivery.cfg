\* Two partitions and two instances, against the abstract specification, with
\* the settings of the production constructor: the timer commits as well, and
\* the group begins at the end.
CONSTANTS
    m1 = m1
    m2 = m2
    u = u
    movie = movie
    RecordIds = {m1, m2}
    RecordTypes = {movie}
    Users = {u}
    Values <- MCValues
    Malformed = Malformed
    None = None
    Instances = {i1, i2}
    Partitions = {p1, p2}
    Payloads <- DeletePayload
    MaxLog = 1
    OffsetReset = "latest"
    AutoCommit = TRUE
SPECIFICATION Spec
PROPERTY EventDeliverySpec
SYMMETRY Symmetry
