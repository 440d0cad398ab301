SPECIFICATION DesktopSpec
CONSTANTS
    Paths = {"json"}
    JsonPaths = {"json"}
    Plans <- DialogPlans
INVARIANTS
    FilesKept
    PreviewUndone
    
    
CHECK_DEADLOCK FALSE
