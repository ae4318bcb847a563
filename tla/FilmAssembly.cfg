SPECIFICATION FairSpec
CONSTANTS
    Ids = {"a", "b"}
    MaxScenes = 3
    MaxFrames = 2
    Faults = {"stage", "store", "probe", "ffmpeg"}
    None = None
INVARIANTS
    TypeOK
    CutFollowsStory
    DeliveredAsFinished
    OnlyWholeFilm
PROPERTIES
    FilmEnds
CHECK_DEADLOCK FALSE
