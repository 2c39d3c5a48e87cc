SPECIFICATION Spec
CONSTANTS
    Blocks = {0, 1}
    MaxOff = 3
    Loads <- TwoPages
    Packings = {"dense"}
    Bodies <- BodySet
    Satisfies <- BodySatisfies
    Dist <- BodyDist
    Modes <- RankedCandidates
    MaxXid = 3
PROPERTY ExecutorSkipsToo
