SPECIFICATION Spec
CONSTANTS
    a = a  b = b  x = x  y = y
    None = None
    Slots = {a, b}
    Images = {x, y}
    Bundles <- ProjectBundles
    MaxSteps = 3
    MaxAccumulation = 2
    MaxSaveEvery = 1
    Faults = {"restore", "extract", "job"}
INVARIANTS
    TypeOK
    UpdatesAccounted
    AdapterSawBundle
    AdapterComplete
