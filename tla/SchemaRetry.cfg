SPECIFICATION Spec
CONSTANTS
    Kids = {1, 2}
    Callers = {"body", "hook"}
    None = None
    Databases = {d1}
    MaxRetries = 3
INVARIANTS CrashIsSurvived
CHECK_DEADLOCK FALSE
