\* Every message of up to three items, parsed and copied into the set.
CONSTANTS
    RecordIds = {m1, m2}
    RecordTypes = {movie}
    Users = {u1, u2}
    Values <- MCValues
    Malformed = Malformed
    MaxItems = 3
SPECIFICATION Spec
INVARIANT PollYieldsParsedEvents
CHECK_DEADLOCK FALSE
