SPECIFICATION Spec
CONSTANTS
    NF = 2
    shadow = 1
    NE = 2
    MaxVersion = 2
    MaxBuilds = 3
    MaxChanges = 2
INVARIANTS UkisMatchIso OldOrNewIso OkIsoIsCurrent ChecksumIsOfIso
