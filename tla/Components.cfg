SPECIFICATION Spec
CONSTANTS
    Parts = {"row", "monitor", "ipc", "message", "text", "conpty", "imports", "strings"}
    Backgrounds = {"default", "red"}
    Default = "default"
    MaxColumns = 3
    MaxEdits = 4
    Clients = {c1, c2}
    MaxReloads = 1
    CLOSE_BUTTON_LEN = 1
    TRUNCATED_LEN = 3
    Letters = {"a", "b"}
    MaxText = 5
    MaxBarColumns = 4
    MaxBarLines = 3
    MaxRecords = 4
    PIPE_CAPACITY = 2
    MaxLocked = 2
    Loads <- SmallLoads
    IMPORT_RECURSION_LIMIT = 2
    FileSystems <- SmallFileSystems
    MaxLength = 4
    MaxWidth = 5
INVARIANTS OccBoundsModified   OutputAnnounced
PROPERTIES MonitorConverges RequestsAnswered ConsoleServed
CHECK_DEADLOCK FALSE
