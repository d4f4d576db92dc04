\* Two messages in a partition and two instances, with fair threads.
CONSTANTS
    m1 = m1
    m2 = m2
    u = u
    movie = movie
    RecordIds = {m1, m2}
    RecordTypes = {movie}
    Users = {u}
    Values <- MCValues
    Malformed = Malformed
    None = None
    Instances = {i1, i2}
    Partitions = {p1}
    Payloads <- FewPayloads
    MaxLog = 2
    OffsetReset = "earliest"
    AutoCommit = FALSE
SPECIFICATION FairSpec
PROPERTIES StopReturns OwnerDrains

