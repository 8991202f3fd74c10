SPECIFICATION FairSpec
CONSTANTS
    Checkers = {c1, c2}
    MaxBuild = 3
    None = None
PROPERTY BadgeHeals
