SPECIFICATION Spec
CONSTANTS
    s1 = s1  s2 = s2  d1 = d1  d2 = d2
    i1 = i1  i2 = i2  c1 = c1  c2 = c2
    Saves = {s1, s2}
    Dirs = {d1, d2}
    Ids = {i1, i2}
    Clients = {c1, c2}
    Cap = 2
    Overlaps = {"start"}
    None = None
    Roots <- MCRoots
    Playthroughs <- MCPlaythroughs
SYMMETRY Symmetry
CONSTRAINT SomethingToLose
CONSTRAINT OneDamaged
CONSTRAINT UnlikeRequests
INVARIANT NeverDiscarded
