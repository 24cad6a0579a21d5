------------------------------ MODULE MCAdapters ------------------------------
(***************************************************************************)
(* The adapters in front of the certification and the projection they      *)
(* share: one of them reads and maps a catalog, or an unknown one gets it  *)
(* wrong (AdapterFaults).                                                  *)
(***************************************************************************)
EXTENDS MCAdapterFaults

VARIABLES
    adapter,    \* which one runs
    source,     \* the catalog it reads
    raw         \* the rows it has read

adapterVars == <<snapshot, discovered, stage, graph, faults, adapter, source,
                 raw>>

(* The names of the catalogs that have letters in both cases.              *)
AsciiLower(name) ==
    CASE name = "T1" -> "t1" [] name = "A" -> "a" [] name = "B" -> "b"
      [] name = "R1" -> "r1" [] OTHER -> name

Sqlite == INSTANCE MCSqliteMapping WITH file <- source, Fold <- AsciiLower
Mysql == INSTANCE MCMysqlMapping WITH server <- source, Lower <- AsciiLower
Postgres == INSTANCE MCPostgresMapping WITH server <- source
SqlServer == INSTANCE MCSqlServerMapping WITH server <- source
Oracle == INSTANCE MCOracleMapping WITH server <- source

AdaptersInit ==
    \/ /\ adapter = "unknown" /\ FaultsInit
       /\ source = <<>> /\ raw = <<>>
    \/ /\ faults = 0
       /\ \/ adapter = "sqlite" /\ Sqlite!SqliteInit(Sqlite!MCFiles)
          \/ adapter = "mysql" /\ Mysql!MysqlInit(Mysql!MCServers)
          \/ adapter = "postgres"
               /\ Postgres!PostgresInit(Postgres!MCServers)
          \/ adapter = "sqlserver"
               /\ SqlServer!SqlServerInit(SqlServer!MCServers)
          \/ adapter = "oracle" /\ Oracle!OracleInit(Oracle!MCServers)

AdaptersNext ==
    /\ UNCHANGED adapter
    /\ \/ adapter = "unknown" /\ FaultsNext /\ UNCHANGED <<source, raw>>
       \/ adapter = "sqlite" /\ Sqlite!SqliteNext /\ UNCHANGED faults
       \/ adapter = "mysql" /\ Mysql!MysqlNext /\ UNCHANGED faults
       \/ adapter = "postgres" /\ Postgres!PostgresNext /\ UNCHANGED faults
       \/ adapter = "sqlserver" /\ SqlServer!SqlServerNext
            /\ UNCHANGED faults
       \/ adapter = "oracle" /\ Oracle!OracleNext /\ UNCHANGED faults

AdaptersSpec == AdaptersInit /\ [][AdaptersNext]_adapterVars

-----------------------------------------------------------------------------
(* Properties.  The conjunct of an adapter is in its module, with what it  *)
(* says of that adapter.                                                   *)

(* The rows an adapter has are rows of its catalog, stages follow one      *)
(* another, and a projection that did not succeed leaves no row behind.    *)
AdaptersTypeOK ==
    /\ adapter = "unknown" => FaultsTypeOK
    /\ adapter = "sqlite" => Sqlite!SqliteTypeOK
    /\ adapter = "mysql" => Mysql!MysqlTypeOK
    /\ adapter = "postgres" => Postgres!PostgresTypeOK
    /\ adapter = "sqlserver" => SqlServer!SqlServerTypeOK
    /\ adapter = "oracle" => Oracle!OracleTypeOK

(* The counts an adapter takes of its rows agree with what it made of them *)
(* in every category, for every catalog the mapping accepts.               *)
CountsAgree ==
    /\ adapter = "sqlite" => Sqlite!SqliteCountsAgree
    /\ adapter = "mysql" => Mysql!MysqlCountsAgree
    /\ adapter = "postgres" => Postgres!PostgresCountsAgree
    /\ adapter = "sqlserver" => SqlServer!SqlServerCountsAgree
    /\ adapter = "oracle" => Oracle!OracleCountsAgree

(* A catalog is stored unless it has a feature the adapter does not        *)
(* support, said of what is declared in it.                                *)
StoredUnlessUnsupported ==
    /\ adapter = "sqlite" => Sqlite!StoredUnlessUnsupported
    /\ adapter = "mysql" => Mysql!MysqlStoredUnlessUnsupported
    /\ adapter = "postgres" => Postgres!PostgresStoredUnlessUnsupported
    /\ adapter = "sqlserver" => SqlServer!SqlServerStoredUnlessUnsupported
    /\ adapter = "oracle" => Oracle!OracleStoredUnlessUnsupported

(* What the catalog records an object to refer to is linked to it: what    *)
(* views and triggers read, foreign keys, types and dependencies.          *)
ReferencesAreStored ==
    /\ adapter = "sqlite" => Sqlite!ReadersAreStored
    /\ adapter = "mysql" => Mysql!ViewReadsAreStored
    /\ adapter = "postgres" => Postgres!ReferencesAreStored
    /\ adapter = "sqlserver" => SqlServer!SqlServerReferencesAreStored
    /\ adapter = "oracle" => Oracle!OracleReferencesAreStored

(* When a row is missing from what was read, no key and no index of        *)
(* MySQL's has a later column in the place of an earlier one (the last     *)
(* ones can be lost unnoticed), and no object of Oracle's inventory is     *)
(* left out.                                                               *)
LostRowsShiftNothing ==
    /\ adapter = "mysql" => Mysql!KeysLoseOnlyTheirEnd
    /\ adapter = "oracle" => Oracle!OracleInventoryIsStored

(* YugabyteDB: every relation and index is placed.                         *)
PlacementIsComplete == adapter = "postgres" => Postgres!PlacementIsComplete

(* No type of an attribute of a composite type (PostgreSQL), of a column,  *)
(* sequence or parameter (SQL Server) is lost.                             *)
TypeUsesAreStored ==
    /\ adapter = "postgres" => Postgres!AttributeTypesAreStored
    /\ adapter = "sqlserver" => SqlServer!SqlServerTypeUsesAreStored

(* A definition that executes text is refused.                             *)
DynamicSqlFailsClosed ==
    /\ adapter = "sqlserver" => SqlServer!DynamicSqlFailsClosed
    /\ adapter = "oracle" => Oracle!OracleDynamicSqlFailsClosed

=============================================================================
