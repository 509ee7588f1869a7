SPECIFICATION Spec
CONSTANTS
    Rows = {1, 2, 3, 4, 5}
    Blank = 1
    MAX_CACHE_SIZE = 1
    MaxRows = 5
    TextSizes <- SmallTexts
    BlankSizes <- BlankTexts
    GridSizes <- SmallGrids
    ReflowTo = {2, 3, 4}
    Pattern <- DoubleX
INVARIANTS RingLaws  SelectionLaws ReflowLaws
