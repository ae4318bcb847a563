SPECIFICATION FairSpec
CONSTANTS
    Jobs = {"j1", "j2"}
    Stages <- OneStage
    Counted = {"keyframe_done", "upload_done"}
    MaxAttempts <- OneRedelivery
    Faults = {"put", "config", "mirror", "setup", "stage", "crash"}
INVARIANTS
    TypeOK
    PollerSeesPrefix
    AnnouncedIsDone
    OutcomeReported
PROPERTIES
    TerminalIsFinal
    FeedSpec
    DeliveredEnds
CHECK_DEADLOCK FALSE
