SPECIFICATION Spec
CONSTANTS
    w1 = w1
    w2 = w2
    Workers = {w1, w2}
    Multis = {1, 2}
    Files = {1, 2}
    Size = 2
    Does = {"pausesWaiting", "pausesDone", "cancelsLate", "restartsFailed", "restartsFile", "killsInRename", "killsInInstall", "stops"}
    MaxRestarts = 1
CHECK_DEADLOCK FALSE
SYMMETRY MCSymmetry
INVARIANTS TypeOK InstalledWhole InstallInv
PROPERTIES DownloadsKept
