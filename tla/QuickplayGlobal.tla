-------------------------- MODULE QuickplayGlobal ---------------------------
(***************************************************************************)
(* The list of servers and the task that refreshes it                      *)
(* (src/quickplay/global.rs).  The task reads two files, one after the     *)
(* other, and replaces the list under a lock that searches hold for        *)
(* reading.  Other programs replace the files, whenever they like.         *)
(***************************************************************************)
EXTENDS QuickplayFiles

VARIABLES
    schema_version,  \* the schema on disk
    list_version,    \* the server list on disk
    refresher,       \* what run_background does next
    schema_read,     \* the version update_schema read last
    list_read,       \* the version update_server_info read last
    servers,         \* QuickplayGlobal.servers: the Vec<ServerInfo>
    readers,         \* who holds the lock of servers for reading
    asof             \* history: the versions on disk when servers was replaced

files == <<schema_version, list_version>>
globals == <<schema_version, list_version, refresher, schema_read, list_read,
             servers, readers, asof>>

-----------------------------------------------------------------------------
GlobalInit ==
    /\ schema_version = 0
    /\ list_version = 0
    /\ refresher = "schema"
    /\ schema_read = 0
    /\ list_read = 0
    /\ servers = <<>>
    /\ readers = {}
    /\ asof = [schema |-> 0, list |-> 0]

ReplaceSchema ==
    /\ schema_version + 1 \in DOMAIN SchemaFile
    /\ schema_version' = schema_version + 1
    /\ UNCHANGED <<list_version, refresher, schema_read, list_read, servers,
                   readers, asof>>

ReplaceServerList ==
    /\ list_version + 1 \in DOMAIN ServerListFile
    /\ list_version' = list_version + 1
    /\ UNCHANGED <<schema_version, refresher, schema_read, list_read, servers,
                   readers, asof>>

UpdateSchema ==
    /\ refresher = "schema"
    /\ schema_read' = schema_version
    /\ refresher' = IF SchemaFile[schema_version] = None THEN "sleeping" ELSE "list"
    /\ UNCHANGED <<files, list_read, servers, readers, asof>>

(* Mutant: an error ends the task. *)
UpdateServerInfoOrStop ==
    /\ refresher = "list"
    /\ list_read' = list_version
    /\ refresher' = IF ServerListFile[list_version] = None THEN "stopped" ELSE "locking"
    /\ UNCHANGED <<files, schema_read, servers, readers, asof>>

(* The parsed list waits for the lock: from now on no search may start.    *)
UpdateServerInfo ==
    /\ refresher = "list"
    /\ list_read' = list_version
    /\ refresher' = IF ServerListFile[list_version] = None THEN "sleeping" ELSE "locking"
    /\ UNCHANGED <<files, schema_read, servers, readers, asof>>

(* Mutant: the list is replaced under the searches' feet. *)
ReplaceServersUnlocked ==
    /\ refresher = "locking"
    /\ servers' = ServerList(schema_read, list_read)
    /\ asof' = [schema |-> schema_version, list |-> list_version]
    /\ refresher' = "sleeping"
    /\ UNCHANGED <<files, schema_read, list_read, readers>>

ReplaceServers ==
    /\ refresher = "locking"
    /\ readers = {}
    /\ servers' = ServerList(schema_read, list_read)
    /\ asof' = [schema |-> schema_version, list |-> list_version]
    /\ refresher' = "sleeping"
    /\ UNCHANGED <<files, schema_read, list_read, readers>>

Wake ==
    /\ refresher = "sleeping"
    /\ refresher' = "schema"
    /\ UNCHANGED <<files, schema_read, list_read, servers, readers, asof>>

RunBackground == UpdateSchema \/ UpdateServerInfo \/ ReplaceServers \/ Wake

-----------------------------------------------------------------------------
(* The guard that server_list returns.  The lock is first come, first      *)
(* served: while the refresh waits for the searches before it, the ones    *)
(* after it wait for the refresh.                                          *)

AcquireRead(s) ==
    /\ refresher # "locking"
    /\ readers' = readers \cup {s}
    /\ UNCHANGED <<files, refresher, schema_read, list_read, servers, asof>>

ReleaseRead(s) ==
    /\ readers' = readers \ {s}
    /\ UNCHANGED <<files, refresher, schema_read, list_read, servers, asof>>

=============================================================================
