SPECIFICATION Spec
CONSTANTS
    Blocks = {0, 1}
    MaxOff = 3
    Loads <- TwoPages
    Packings = {"dense"}
    Bodies <- BodySet
    Satisfies <- BodySatisfies
    Dist <- BodyDist
    Modes <- AllModes
    MaxXid = 3
INVARIANTS NoRowLost EachRowOnce PublishedOrder
