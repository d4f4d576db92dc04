\* Every service, owner and file.  A process ends in every case but one that
\* a runner serves from.
CONSTANTS
    MaxCalls = 2
SPECIFICATION FairSpec
INVARIANTS RegisteredIsConfigured BlamesTheFile HandlersWithinStart ObjectsOutliveThreads
PROPERTIES StopEndsService NoServerNoProcess
CHECK_DEADLOCK FALSE
