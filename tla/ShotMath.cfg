SPECIFICATION Spec
CONSTANTS
    None = None
    Requests <- AllRequests
INVARIANTS
    FramesAccepted
    FilmPlaysAsAnimated
    RegionsApart
CHECK_DEADLOCK FALSE
