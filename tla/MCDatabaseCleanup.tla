------------------------ MODULE MCDatabaseCleanup ------------------------
(* Two plugin databases: enough for a session on a sibling of the busy one. *)
EXTENDS DatabaseCleanup
CONSTANTS catalog, auth, none
PluginDatabases == {catalog, auth}
===========================================================================
