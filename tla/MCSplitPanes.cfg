SPECIFICATION Spec
CONSTANTS
 Sess = {s1, s2, s3}
 None = None
 Modes = {"1x1", "2x1", "3x1"}
 Single = "1x1"
 MaxPanes = 3
 MaxCalls = 1
 MenuPanes = {0}
 Count <- CountOf
SYMMETRY Symmetry
INVARIANTS LayoutOK ActiveShown ReloadKeepsScreen
CHECK_DEADLOCK FALSE
