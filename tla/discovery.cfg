\* Two instances of one service that start, report, fail, crash and start
\* again, an agent that restarts, and a client.  TTL and Period stand for the
\* 5 and the 3 seconds of the code; instances start in seconds 0 and 1.
CONSTANTS
    rating = rating
    Instances = {i1, i2}
    Names = {rating}
    NameOf <- OneService
    TTL = 3
    Period = 2
    MaxSecond = 2
    None = None
SPECIFICATION FairSpec
PROPERTIES BeatingStaysPassing AddressIsFresh HealthyIsFound ThrowsOnlyOnRace DownExpires RegistrySpec
