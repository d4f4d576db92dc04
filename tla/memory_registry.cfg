\* Two processes of one service, one of another, and a gateway.
CONSTANTS
    i1 = i1
    i2 = i2
    i3 = i3
    rating = rating
    metadata = metadata
    Instances = {i1, i2, i3}
    Names = {rating, metadata}
    NameOf <- TwoServices
    TTL = 3
    MaxQuiet = 2
    None = None
SPECIFICATION FairSpec
INVARIANTS TimelyIsListed ExpiredOnlyWhileQuiet LateIsUnlisted
PROPERTIES CrashNeedsAbsence DeadIsUnlisted
