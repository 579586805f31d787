SPECIFICATION Spec
CONSTANTS
    Runs = {1, 2}
    Configs = {canny, blur}
    NoConfig = none
    MaxDrops = 1
    MaxStarts = 2
    MaxEdits = 1
SYMMETRY ConfigSymmetry
INVARIANTS FilterInv StoppedStaysAway EndIsHeard AppliedStays NothingLeftBehind
CHECK_DEADLOCK FALSE
