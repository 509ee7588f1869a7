SPECIFICATION Spec
CONSTANTS
    Rows = {blank, x}
    Blank = blank
    MAX_CACHE_SIZE = 1
    MaxLines = 3
    MaxScrollLimit = 2
    MaxGrid = 5
    RegionStarts = {0, 1}
INVARIANTS DisplayWithinHistory
