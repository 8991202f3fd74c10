SPECIFICATION Spec
CONSTANTS
    a = a
    b = b
    c = c
    Mods <- MCMods
    Gproj <- MCGproj
    Workshop <- MCWorkshop
    Listed = {a, b}
    Unlisted = {b}
    Moving = {a}
    Pinnable = {a}
    Declares <- MCDeclares
    Layouts <- MCLayouts
    MaxDepth = 1
    MaxBuild = 2
PROPERTY EnabledPinsHonoured
CONSTRAINT EngineApart
CHECK_DEADLOCK FALSE
