SPECIFICATION Spec
CONSTANTS
    Kids = {1, 2}
    Callers = {"test", "fixture"}
    None = None
INVARIANTS TypeOK TrueReport LeftoversExplained NoStrayTunnel PortIsCurrent
PROPERTIES TeardownEnds
CHECK_DEADLOCK FALSE
