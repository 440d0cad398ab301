SPECIFICATION DesktopSpec
CONSTANTS
    Paths = {"json"}
    JsonPaths = {"json"}
    Plans <- DialogPlans
PROPERTY
    LeftEditorIsQuiet
CHECK_DEADLOCK FALSE
