SPECIFICATION StoppedSpec
CONSTANTS
    catalog = catalog
    auth = auth
    none = none
    Names <- PluginDatabases
    None <- none
    Timeout = 3
PROPERTIES WaitsOnlyForOthers
CHECK_DEADLOCK FALSE
