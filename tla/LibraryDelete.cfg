SPECIFICATION Spec
CONSTANTS
    a = a  b = b  c1 = c1
    Worker = Worker  Nightly = Nightly
    Mods = {a, b}
    Order <- AB
    Gproj <- Chain
    Workshop <- Chain
    Listed = {a}
    Missions = {a}
    Picked = {a}
    Tasks = {Worker, Nightly}
    Bodies <- BodiesApart
    Clients = {c1}
PROPERTY StartedStays
