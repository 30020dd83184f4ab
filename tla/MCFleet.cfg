SPECIFICATION FairSpec
CONSTANTS
    Actions = {a1, a2}
    MaxReads = 2
    MaxFaults = 1
PROPERTY SettledIsFresh
PROPERTY RowNeverGoesBack
PROPERTY ShownInTheEnd
