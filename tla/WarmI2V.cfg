SPECIFICATION FairSpec
CONSTANTS
    None = None
    Experts = {"transformer", "transformer_2"}
    Pairs = {"q", "v"}
    FlowShifts = {3, 5}
    LoadedShift = 5
    Faults = {"weights", "lora", "shift", "reset", "cache", "context", "draw"}
INVARIANTS
    TypeOK
    DistilledClipHasLora
    CacheNeverLeaks
PROPERTIES
    ShotEnds
