SPECIFICATION Spec
CONSTANTS
    Windows = {w1, w2}
    Sizes = {3, 4}
    CellSize = 2
    Kinds = {"Resized", "Focused", "Occluded", "Key", "CloseRequested", "Expose", "Output", "CursorStyle", "ChildExit"}
    MaxInputs = 3
    BlinkInterval = 1
    BlinkTimeout = 2
    ResizeDebounce = 1
    FrameInterval = 1
    BellDuration = 1
    Wayland = {FALSE}
    unfocused_hollow = TRUE
    Hold = {}
    daemon = FALSE
INVARIANTS TimersSound FramesOwed TimedOutCursorShown
CHECK_DEADLOCK FALSE
SYMMETRY WindowSymmetry
