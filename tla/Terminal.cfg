SPECIFICATION Spec
CONSTANTS
    TITLE_STACK_MAX_DEPTH = 2
    KEYBOARD_MODE_STACK_MAX_DEPTH = 2
    INITIAL_TABSTOPS = 2
    Size <- AllGroups
    NewSizes <- SmallSizes
    History = 1
    MaxKeyboardModes = 2
    MaxAbove = 2
    MAX_SEARCH_HISTORY_SIZE = 2
    Chars = {"a"}
    MaxRegex = 1
    MaxDelta = 1
INVARIANTS TypeOK DamageCoversWrites ModesConsistent PositionsInGrid
 
CHECK_DEADLOCK FALSE
