CONSTANTS
    Letters = {1, 2, 3, 4, 5, 6}
    Ascii = {1, 2, 3, 4}
    Bytes = {1, 2, 3, 4, 5}
    Upper <- MCUpper
    Builds <- MCOneRow
    LateRows = {}
    Queries <- MCClassRepetitions
    ClassExpandMax = 3
    OrAltsMax = 8
    OrGroupsMax = 2
    RepInlineMax = 4
    RunPiecesMax = 8
    Fanouts = {2, 64}
    ExpandMax = 4096
SPECIFICATION Spec
INVARIANT PiecesSound
CHECK_DEADLOCK FALSE
