SPECIFICATION Spec
CONSTANTS
    Rows = {blank, x, y}
    Blank = blank
    MAX_CACHE_SIZE = 1
    MaxLines = 3
    MaxScrollLimit = 2
    MaxGrid = 4
    RegionStarts = {0, 1}
INVARIANT InBounds
PROPERTIES RefinesScrollback CursorRowKept ViewKept
SYMMETRY RowSymmetry
CONSTRAINT Small
