SPECIFICATION Spec
CONSTANTS
    Kids = {1, 2}
    Callers = {"body", "hook"}
    None = None
    Databases = {d1, d2}
    MaxRetries = 3
INVARIANTS TypeOK SchemaStaysClean ForwardAccounted RetriesSuffice
PROPERTIES BodyEnds
CHECK_DEADLOCK FALSE
