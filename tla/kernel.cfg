SPECIFICATION FairSpec
CONSTANTS
    Specs <- Layered
    Stoppers = {s1, s2}
    Owner = {"RUNNING", "FAILED"}
    Reactions = {"none", "RUNNING", "STOPPING", "FAILED"}
INVARIANTS
    TypeOK
    TrailIsAWalk
    RegistryClosed
    DependentsDrainFirst
    StoppedMeansDrained
    StopReturnsAtTheEnd
PROPERTY
    DrainsEnd
CHECK_DEADLOCK FALSE
