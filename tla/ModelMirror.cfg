SPECIFICATION FairSpec
CONSTANTS
    ColdLegs = {"hf-cache", "antelopev2"}
    PlainLegs = {"antelopev2"}
    Repos = {"wan", "lightning"}
    Faults = {"pull", "link", "crash"}
INVARIANTS
    TypeOK
    OnePullAtATime
    SentinelHonest
    LoadsWholeMirror
PROPERTIES
    I2VDecided
