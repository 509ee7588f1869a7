SPECIFICATION LiveSpec
CONSTANTS
    Situations = {"output", "input"}
    Nobody = nobody
    Threads <- MCThreads
    Scripts <- MCShortScripts
    InputSizes <- MCOneInput
    MaxResizes = 1
    MaxSignals = 1
    READ_BUFFER_SIZE = 1
    MAX_LOCKED_READ = 2
    drain_on_exit = FALSE
    FatalErrors = FALSE
PROPERTIES OutputShown  MessagesTakeEffect
CHECK_DEADLOCK FALSE
