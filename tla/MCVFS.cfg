SPECIFICATION Spec
CONSTANTS
    RAMFS_MAX_FILES = 3
    RAMFS_MAX_DIRENT = 3
    PAGE_SIZE = 1
    Procs = {p1}
    NFILES = 2
    Paths <- MCPaths
    OpenFlags <- MCOpenFlags
    SpecialModes = {"CHR"}
    Offsets = {0}
    Counts = {1}
    MaxLost = 1
    MaxLinks = 3
INVARIANTS FileRefsExact VnodeRefsExact LinksKeepInodes LengthsAgree
CHECK_DEADLOCK FALSE
