SPECIFICATION Spec
CONSTANTS
    s1 = s1  s2 = s2  p1 = p1  p2 = p2  a = a  v1 = v1
    NoPin = NoPin  NoServer = NoServer  NoPack = NoPack
    c1 = c1
    Names = {s1}
    Packs = {p1, p2}
    Mods = {a}
    Versions = {v1}
    Admins <- NoAdmin
    Backups <- SomeBackups
    Clients = {c1}
    Overlaps = {}
PROPERTY EveryDropIsTold
