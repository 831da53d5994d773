CONSTANTS
    Thread = {"saver", "shutdown"}
    Inode = {1, 2, 3, 4, 5, 6, 7}
    MaxFaults = 0
    MaxVersion = 3
    Absent = Absent
    Empty = Empty
    Garbage = Garbage
SPECIFICATION SavesSpec
CHECK_DEADLOCK FALSE
INVARIANT
    CleanStopKeepsChain
