SPECIFICATION FairSpec
CONSTANTS
    Windows = {w1}
    Sizes = {0, 3, 4}
    CellSize = 2
    Kinds = {"Resized", "Occluded", "CloseRequested", "Expose", "Output"}
    MaxInputs = 3
    BlinkInterval = 1
    BlinkTimeout = 2
    ResizeDebounce = 1
    FrameInterval = 1
    BellDuration = 0
    Wayland = {TRUE, FALSE}
    unfocused_hollow = TRUE
    Hold = {w1}
    daemon = FALSE
PROPERTIES EventuallyDrawn ResizeSettles ClosesOnRequest
CHECK_DEADLOCK FALSE
