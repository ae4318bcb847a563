SPECIFICATION Spec
CONSTANTS
    aria = aria  bren = bren
    None = None
    Slots = {"A", "B"}
    Looks = {aria, bren}
    Scenes <- TwoProjects
    Faults = {"weights", "distill", "image", "draw"}
INVARIANTS
    TypeOK
    DrawnAsAsked
    TokensCleared
