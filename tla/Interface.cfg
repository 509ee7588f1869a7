SPECIFICATION Spec
CONSTANTS
    Devices = {"keyboard", "pointer", "hints", "damage", "glyphs", "content"}
    ModifierSets <- HeldModifiers
    WindowOf <- Windows
    MousePositions <- Places
    TouchPositions <- Touches
    Fingers = {1, 2, 3}
    MIN_SELECTION_SCROLLING_HEIGHT = 1
    SELECTION_SCROLLING_STEP = 2
    MAX_TAP_DISTANCE = 2
    Multiplier = 2
    WheelPixels <- Turns
    MaxPixels = 8
    HintTexts <- Screens
    AlphabetSize = 3
    MaxLabels = 20
    FrameLines = 3
    FrameColumns = 2
    IndicatorLength = 1
    TimerLength = 1
    ViPoints <- Points2x2
    SelectedRanges <- Selections
    HintLines = {1, 2}
    MaxOffset = 1
    MaxChanges = 2
    ATLAS_SIZE = 4
    BATCH_MAX = 2
    MaxCells = 5
    Missing = "none"
    GlyphSize <- Glyphs
    ContentColumns = 3
    Frames <- SmallFrames
INVARIANTS KeysDistinct PointerSettles HintsOpenText DamageComplete CellsDrawn
PROPERTY LocalKeysStay
CHECK_DEADLOCK FALSE
