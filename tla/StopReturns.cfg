SPECIFICATION FairSpec
CONSTANTS
    w1 = w1
    w2 = w2
    Workers = {w1, w2}
    Multis = {1}
    Files = {1, 2}
    Size = 2
    Does = {"stops"}
    MaxRestarts = 0
CHECK_DEADLOCK FALSE
PROPERTIES StopTerminates
