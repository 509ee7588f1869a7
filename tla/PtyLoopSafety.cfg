SPECIFICATION MCSpec
CONSTANTS
    Situations = {"any"}
    Nobody = nobody
    Threads <- MCThreads
    Scripts <- MCScripts
    InputSizes <- MCInputSizes
    MaxResizes = 1
    MaxSignals = 0
    READ_BUFFER_SIZE = 2
    MAX_LOCKED_READ = 2
    drain_on_exit = TRUE
    FatalErrors = TRUE
INVARIANTS TypeOK LockDiscipline StreamsConserved
PROPERTIES WaiterIsNext 
CHECK_DEADLOCK FALSE
