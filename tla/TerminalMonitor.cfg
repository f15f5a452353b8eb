CONSTANTS
    Files = {bash, fish}
    Commands = {ls}
    None = None
    MaxLines = 2
    MaxRewrites = 1
    MaxFaults = 1
    MaxRestarts = 1
SPECIFICATION Spec
SYMMETRY MCSymmetry
INVARIANTS TypeOK ReportedOnce NothingSkipped
