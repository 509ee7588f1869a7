SPECIFICATION MCSpec
CONSTANTS
    Situations = {"any"}
    Nobody = nobody
    Threads <- MCThreads
    Scripts <- MCScripts
    InputSizes <- MCOneInput
    MaxResizes = 0
    MaxSignals = 0
    READ_BUFFER_SIZE = 2
    MAX_LOCKED_READ = 2
    drain_on_exit = TRUE
    FatalErrors = TRUE
INVARIANTS DrainedOnExit
CHECK_DEADLOCK FALSE
