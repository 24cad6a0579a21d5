-------------------------- MODULE CatalogDiscovery --------------------------
(***************************************************************************)
(* One analysis of one source: analyze_complete_source, the                *)
(* DatabaseAnalysisService around an adapter, and the discovery protocol   *)
(* of every adapter, while somebody else changes the schema (DDL), the     *)
(* caller cancels and the deadline passes.                                 *)
(*                                                                         *)
(* An adapter is the sequence of its steps.  What the adapters differ in   *)
(* is the order of the steps and how they defend the many catalog queries  *)
(* of one read against concurrent DDL:                                     *)
(*   - PostgreSQL, YugabyteDB, Oracle, SQLite read inside a transaction    *)
(*     whose snapshot also covers the dictionary;                          *)
(*   - MySQL and MariaDB, whose dictionary is not covered by the snapshot, *)
(*     compare a signature of the catalog taken before and after the read; *)
(*   - SQL Server (and ODBC, which delegates to it) and Oracle read twice  *)
(*     and compare;                                                        *)
(*   - SQLite DDL files are read once each.                                *)
(*                                                                         *)
(* The rows a query returns are a version number: two reads of a query are *)
(* equal iff nothing the query shows was changed, or it was changed back.  *)
(***************************************************************************)
EXTENDS Naturals, Sequences, FiniteSets

CONSTANTS
    Source,     \* request.source values analysed
    Schema,     \* schema names
    NQueries,   \* catalog queries of one read, besides the schema list
    MaxDdl,     \* bound on concurrent DDL statements
    Reuse       \* sources under which a DDL statement may restore what was
                \* there before

SourceKind == {"sqlite", "ddl-sqlite", "postgres", "yugabytedb", "mysql",
               "mariadb", "sqlserver", "oracle", "odbc"}

ASSUME DiscoveryAssumption ==
    /\ Source \subseteq SourceKind
    /\ NQueries \in Nat \ {0}
    /\ MaxDdl \in Nat
    /\ Reuse \subseteq Source

Query == 1 .. NQueries
Rows == [Query -> 0 .. MaxDdl]
CatalogState == [schemas : SUBSET Schema, rows : Rows]

VARIABLES
    cat,        \* the server's catalog
    ddls,       \* DDL statements so far
    instants,   \* history: the catalogs there were since the first query
    source,     \* request.source
    server,     \* the product behind the connection
    requested,  \* requested_schemas; empty asks for all.  For Oracle after
                \* normalize_requested_schemas, which puts the session user
                \* in the place of an empty request
    token,      \* CancellationToken, and whether it was set in time
    expired,    \* timeout_ms have passed
    at,         \* the step the analysis is at
    next,       \* the query of that step to run next
    snap,       \* the transaction's view of the catalog, <<>> if none
    selected,   \* schemas in scope
    sigs,       \* CatalogSignature before and after
    reads,      \* the raw catalog, and the second read of it
    outcome     \* "running", "complete" or the failure code

envVars == <<cat, ddls, instants, token, expired>>
requestVars == <<source, server, requested>>
vars == <<cat, ddls, instants, source, server, requested, token, expired,
          at, next, snap, selected, sigs, reads, outcome>>

-----------------------------------------------------------------------------
(* The programs.                                                           *)

PostgresSteps ==
    <<"checkpoint", "configure", "call", "checkpoint", "begin", "call",
      "checkpoint", "identify", "scope", "read", "checkpoint", "map",
      "checkpoint", "call">>

MysqlSteps ==
    <<"checkpoint", "configure", "call", "checkpoint", "identify", "call",
      "checkpoint", "begin_rows", "call", "sign", "read", "sign_again",
      "stable_signature", "checkpoint", "map", "checkpoint", "call">>

SqlServerSteps ==
    <<"checkpoint", "configure", "call", "checkpoint", "call", "identify",
      "scope", "checkpoint", "read", "checkpoint", "read_again",
      "stable_reads", "checkpoint", "map">>

(* Variant: the READ ONLY transaction is forgotten.                        *)
OracleStepsAutocommit ==
    <<"checkpoint", "configure", "call", "checkpoint", "call", "begin_rows",
      "checkpoint", "identify", "scope", "checkpoint", "read", "checkpoint",
      "read_again", "stable_reads", "validate", "checkpoint", "map",
      "rollback">>

OracleSteps ==
    <<"checkpoint", "configure", "call", "checkpoint", "call", "begin",
      "checkpoint", "identify", "scope", "checkpoint", "read", "checkpoint",
      "read_again", "stable_reads", "validate", "checkpoint", "map",
      "rollback">>

SqliteSteps ==
    <<"checkpoint", "configure", "call", "checkpoint", "call", "begin",
      "read", "map", "call">>

(* The DDL source certifies by itself, outside the analysis service.       *)
DdlSteps ==
    <<"deadline", "read_files", "deadline", "map", "certify", "deadline">>

(* The capability probe of ODBC, before the native adapter takes over.     *)
OdbcProbeSteps ==
    <<"configure", "checkpoint", "configure", "deadline", "call", "deadline",
      "call", "deadline", "call", "time_left", "identify">>

(* Variant: no checkpoint after the certification.                         *)
ServiceLastCheckDropped(steps) ==
    <<"configure", "checkpoint">> \o steps \o <<"checkpoint", "certify">>

(* DatabaseAnalysisService::analyze_with_cancellation around an adapter.   *)
Service(steps) ==
    <<"configure", "checkpoint">> \o steps
        \o <<"checkpoint", "certify", "checkpoint">>

(* analyze_complete_source: validate, dispatch, enforce the product.       *)
Program ==
    <<"configure">>
      \o (CASE source \in {"postgres", "yugabytedb"} -> Service(PostgresSteps)
            [] source \in {"mysql", "mariadb"} -> Service(MysqlSteps)
            [] source = "sqlserver" -> Service(SqlServerSteps)
            [] source = "oracle" -> Service(OracleSteps)
            [] source = "sqlite" -> Service(SqliteSteps)
            [] source = "ddl-sqlite" -> DdlSteps
            [] source = "odbc" -> OdbcProbeSteps \o Service(SqlServerSteps))
      \o <<"enforce">>

Step == Program[at]
PositionOf(step) == CHOOSE i \in 1 .. Len(Program) : Program[i] = step
Snapshotted == {"postgres", "yugabytedb", "oracle", "sqlite"}
Scoped == {"postgres", "yugabytedb", "oracle", "sqlserver", "odbc"}

(* Products a client of this kind can find itself connected to.            *)
Speaks(s) ==
    CASE s \in {"postgres", "yugabytedb"} -> {"postgres", "yugabytedb"}
      [] s \in {"mysql", "mariadb"} -> {"mysql", "mariadb"}
      [] s = "odbc" -> {"sqlserver", "oracle"}
      [] OTHER -> {s}

Unread == [q \in Query |-> 0]
NoCatalog == [schemas |-> {}, rows |-> Unread]

Init ==
    /\ cat = [schemas |-> Schema, rows |-> Unread]
    /\ ddls = 0
    /\ instants = {}
    /\ source \in Source
    /\ server \in Speaks(source)
    /\ requested \in IF source \in Scoped THEN SUBSET Schema ELSE {{}}
    /\ source = "oracle" => requested # {}
    /\ token = "active"
    /\ expired = FALSE
    /\ at = 1
    /\ next = 1
    /\ snap = <<>>
    /\ selected = {}
    /\ sigs = [before |-> Unread, after |-> Unread]
    /\ reads = [first |-> NoCatalog, second |-> NoCatalog]
    /\ outcome = "running"

-----------------------------------------------------------------------------
(* The environment.                                                        *)

Running == outcome = "running"
Cancelled == token # "active"

(* A DDL statement changes what some of the queries show, in one step.     *)
Ddl ==
    /\ Running
    /\ ddls < MaxDdl
    /\ \E ss \in SUBSET Schema, qs \in SUBSET Query, v \in 0 .. ddls + 1 :
          /\ source \in Reuse \/ (v = ddls + 1 /\ ss \subseteq cat.schemas)
          /\ cat' = [schemas |-> ss,
                     rows |-> [q \in Query |->
                                  IF q \in qs THEN v ELSE cat.rows[q]]]
          /\ cat' # cat
    /\ ddls' = ddls + 1
    /\ instants' = IF instants = {} THEN {} ELSE instants \union {cat'}
    /\ UNCHANGED <<requestVars, token, expired, at, next, snap, selected,
                   sigs, reads, outcome>>

(* The caller cancels, through one of the ..._with_cancellation entry      *)
(* points (the CLI and the MCP server pass a token that nobody sets).  In  *)
(* time means before the result was certified.                             *)
Cancel ==
    /\ Running
    /\ ~Cancelled
    /\ token' = IF at <= PositionOf("certify") THEN "in_time" ELSE "late"
    /\ UNCHANGED <<cat, ddls, instants, expired, requestVars, at, next, snap,
                   selected, sigs, reads, outcome>>

DeadlinePasses ==
    /\ Running
    /\ ~expired
    /\ expired' = TRUE
    /\ UNCHANGED <<cat, ddls, instants, token, requestVars, at, next, snap,
                   selected, sigs, reads, outcome>>

-----------------------------------------------------------------------------
(* The steps.                                                              *)

Advance ==
    /\ at' = at + 1
    /\ next' = 1

(* An error ends the analysis.  The codes stand for the CatalogError and   *)
(* AnalysisFailureCode variants; query_failed for every way a statement or *)
(* its answer is rejected.  Inside discover_connected the Oracle adapter   *)
(* still rolls its transaction back before it returns the error.           *)
Fail(code) ==
    /\ outcome' = code
    /\ at' = IF /\ source = "oracle"
                /\ at \in PositionOf("identify") .. PositionOf("map")
             THEN PositionOf("rollback")
             ELSE Len(Program) + 1
    /\ next' = 1

(* The checks before a step: CancellationToken::checkpoint, and the        *)
(* checkpoints of the ODBC probe and the DDL source, which also look at    *)
(* the deadline, after the token.                                          *)
Checkpoint ==
    /\ Running
    /\ Step = "checkpoint"
    /\ IF Cancelled THEN Fail("cancelled") ELSE Advance /\ UNCHANGED outcome
    /\ UNCHANGED <<envVars, requestVars, snap, selected, sigs, reads>>

DeadlineCheck ==
    /\ Running
    /\ Step = "deadline"
    /\ IF Cancelled THEN Fail("cancelled")
       ELSE IF expired THEN Fail("timeout")
       ELSE Advance /\ UNCHANGED outcome
    /\ UNCHANGED <<envVars, requestVars, snap, selected, sigs, reads>>

TimeLeft ==
    /\ Running
    /\ Step = "time_left"
    /\ IF expired THEN Fail("timeout") ELSE Advance /\ UNCHANGED outcome
    /\ UNCHANGED <<envVars, requestVars, snap, selected, sigs, reads>>

Configure ==
    /\ Running
    /\ Step = "configure"
    /\ \/ Advance /\ UNCHANGED outcome
       \/ Fail("invalid_configuration")
    /\ UNCHANGED <<envVars, requestVars, snap, selected, sigs, reads>>

(* A statement of a transaction fixes the snapshot it reads from.          *)
InTransaction ==
    /\ source \in Snapshotted
    /\ \E i \in 1 .. at - 1 : Program[i] = "begin"

View == IF snap = <<>> THEN cat ELSE snap[1]
FixView == snap' = IF InTransaction THEN <<View>> ELSE <<>>

(* The first catalog query opens the window the result may come from.      *)
Observe == instants' = IF instants = {} THEN {View} ELSE instants

(* Any statement can fail; past the deadline it can time out.  Oracle asks *)
(* for the time left before every call, so none starts after the deadline. *)
StatementStep ==
    {"call", "begin", "begin_rows", "identify", "scope", "sign", "read",
     "sign_again", "read_again"}
MayStart == source = "oracle" => ~expired

StatementFails ==
    /\ Running
    /\ Step \in StatementStep \union {"read_files"}
    /\ \/ Fail("query_failed")
       \/ expired /\ Fail("timeout")
    /\ UNCHANGED <<envVars, requestVars, snap, selected, sigs, reads>>

(* connect, set_config, configure_session, grants, commit: statements that *)
(* read no catalog rows.                                                   *)
Call ==
    /\ Running
    /\ Step = "call"
    /\ Advance
    /\ FixView
    /\ UNCHANGED <<envVars, requestVars, selected, sigs, reads, outcome>>

(* Oracle's READ ONLY transaction is at its snapshot at once, the others   *)
(* with their first statement.  MySQL's consistent snapshot covers rows,   *)
(* not the dictionary.                                                     *)
Begin ==
    /\ Running
    /\ Step \in {"begin", "begin_rows"}
    /\ MayStart
    /\ Advance
    /\ snap' = IF source = "oracle" THEN <<cat>> ELSE snap
    /\ UNCHANGED <<envVars, requestVars, selected, sigs, reads, outcome>>

(* ServerFacts::read, detect and validate_scope.  The MySQL adapter takes  *)
(* whichever of its two products answers.                                  *)
WrongProduct ==
    \/ source \in {"postgres", "yugabytedb"} /\ server # source
    \/ source = "odbc" /\ server # "sqlserver"

Identify ==
    /\ Running
    /\ Step = "identify"
    /\ MayStart
    /\ IF WrongProduct
       THEN Fail("unsupported_product") /\ UNCHANGED snap
       ELSE \/ Advance /\ FixView /\ UNCHANGED outcome
            \/ \E code \in {"unsupported_version", "invalid_configuration"} :
                  Fail(code) /\ UNCHANGED snap
    /\ UNCHANGED <<envVars, requestVars, selected, sigs, reads>>

(* Variant: a requested schema that does not exist is not missed.          *)
SelectScopeUnchecked ==
    /\ Running
    /\ Step = "scope"
    /\ MayStart
    /\ Observe
    /\ FixView
    /\ selected' = IF requested = {} THEN View.schemas ELSE requested
    /\ Advance
    /\ UNCHANGED <<cat, ddls, token, expired, requestVars, sigs, reads,
                   outcome>>

(* The requested schemas must exist.  The PostgreSQL adapter refuses an    *)
(* empty scope here, SQL Server's leaves that to the certification.        *)
ScopeExists ==
    /\ requested \subseteq View.schemas
    /\ source \in {"postgres", "yugabytedb"} => View.schemas # {}

(* The schemas to read: the requested ones, or all.                        *)
SelectScope ==
    /\ Running
    /\ Step = "scope"
    /\ MayStart
    /\ Observe
    /\ FixView
    /\ IF ScopeExists
       THEN /\ selected' = IF requested = {} THEN View.schemas ELSE requested
            /\ Advance
            /\ UNCHANGED outcome
       ELSE Fail("invalid_configuration") /\ UNCHANGED selected
    /\ UNCHANGED <<cat, ddls, token, expired, requestVars, sigs, reads>>

(* Variant: the loop runs one query too many.                              *)
NextQueryOneMore ==
    IF next > NQueries THEN Advance ELSE next' = next + 1 /\ at' = at

(* The queries of a loop run one after the other.                          *)
NextQuery == IF next = NQueries THEN Advance ELSE next' = next + 1 /\ at' = at

Sign ==
    /\ Running
    /\ Step \in {"sign", "sign_again"}
    /\ Observe
    /\ sigs' = IF Step = "sign"
               THEN [sigs EXCEPT !.before[next] = cat.rows[next]]
               ELSE [sigs EXCEPT !.after[next] = cat.rows[next]]
    /\ NextQuery
    /\ UNCHANGED <<cat, ddls, token, expired, requestVars, snap, selected,
                   reads, outcome>>

(* Raw...Catalog::read: the schema list with the first query, filtered by  *)
(* the scope, and then query after query.                                  *)
QueryResult(raw) ==
    [schemas |-> IF next = 1 THEN View.schemas \intersect selected
                 ELSE raw.schemas,
     rows |-> [raw.rows EXCEPT ![next] = View.rows[next]]]

Read ==
    /\ Running
    /\ Step \in {"read", "read_again"}
    /\ MayStart
    /\ Observe
    /\ FixView
    /\ reads' = IF Step = "read"
                THEN [reads EXCEPT !.first = QueryResult(@)]
                ELSE [reads EXCEPT !.second = QueryResult(@)]
    /\ NextQuery
    /\ UNCHANGED <<cat, ddls, token, expired, requestVars, selected, sigs,
                   outcome>>

(* load_ddl_connection: both checks before every file.                     *)
ReadFile ==
    /\ Running
    /\ Step = "read_files"
    /\ IF Cancelled THEN Fail("cancelled") /\ UNCHANGED <<instants, reads>>
       ELSE IF expired THEN Fail("timeout") /\ UNCHANGED <<instants, reads>>
       ELSE /\ Observe
            /\ reads' = [reads EXCEPT !.first = QueryResult(@)]
            /\ NextQuery
            /\ UNCHANGED outcome
    /\ UNCHANGED <<cat, ddls, token, expired, requestVars, snap, selected,
                   sigs>>

(* Variant: only a failed second signature is noticed.                     *)
StableSignatureIgnored ==
    /\ Running
    /\ Step = "stable_signature"
    /\ Advance
    /\ UNCHANGED <<envVars, requestVars, snap, selected, sigs, reads, outcome>>

StableSignature ==
    /\ Running
    /\ Step = "stable_signature"
    /\ IF sigs.before = sigs.after THEN Advance /\ UNCHANGED outcome
       ELSE Fail("catalog_changed")
    /\ UNCHANGED <<envVars, requestVars, snap, selected, sigs, reads>>

StableReads ==
    /\ Running
    /\ Step = "stable_reads"
    /\ IF reads.first = reads.second THEN Advance /\ UNCHANGED outcome
       ELSE Fail("catalog_changed")
    /\ UNCHANGED <<envVars, requestVars, snap, selected, sigs, reads>>

(* The DDL source reports any rejection as cancelled or timeout when one   *)
(* of the two is the case by then.                                         *)
Rejection(code) ==
    IF source # "ddl-sqlite" THEN code
    ELSE IF Cancelled THEN "cancelled" ELSE IF expired THEN "timeout" ELSE code

(* Mapping is a computation on what was read, and may reject it; Oracle's  *)
(* validate_raw_catalog does so before the last checkpoint.                *)
Map ==
    /\ Running
    /\ Step \in {"validate", "map"}
    /\ \/ Advance /\ UNCHANGED outcome
       \/ Fail(Rejection("metadata_mapping_failed"))
    /\ UNCHANGED <<envVars, requestVars, snap, selected, sigs, reads>>

(* Oracle rolls back on success and on error.  A rollback that fails turns *)
(* success into an error and leaves an earlier error as it was.            *)
Rollback ==
    /\ at <= Len(Program)
    /\ Step = "rollback"
    /\ snap' = <<>>
    /\ IF Running
       THEN \/ Advance /\ UNCHANGED outcome
            \/ Fail("query_failed")
       ELSE /\ at' = Len(Program) + 1
            /\ UNCHANGED <<next, outcome>>
    /\ UNCHANGED <<envVars, requestVars, selected, sigs, reads>>

(* The progress handler of SQLite and of the in-memory DDL database stops  *)
(* a statement on cancellation or past the deadline; the error is told     *)
(* apart afterwards, by looking at the token again.                        *)
SqliteInterrupted ==
    /\ Running
    /\ source \in {"sqlite", "ddl-sqlite"}
    /\ Step \in {"read", "read_files", "map"}
    /\ Cancelled \/ expired
    /\ Fail(IF Cancelled THEN "cancelled" ELSE "timeout")
    /\ UNCHANGED <<envVars, requestVars, snap, selected, sigs, reads>>

(* run_catalog_discovery_on_runtime: the select around the SQL Server      *)
(* discovery drops it at an await; the worker thread can panic.            *)
SqlServerInterrupted ==
    /\ Running
    /\ source \in {"sqlserver", "odbc"}
    /\ at > Len(Program) - Len(SqlServerSteps) - 4
    /\ Step \in StatementStep
    /\ \/ Cancelled /\ Fail("cancelled")
       \/ expired /\ Fail("timeout")
       \/ Fail("internal")
    /\ UNCHANGED <<envVars, requestVars, snap, selected, sigs, reads>>

(* The scope handed over for certification has a schema: MySQL's database  *)
(* and SQLite's main schema are fixed, the others give what was read.      *)
ScopeDeclared == source \in Scoped => reads.first.schemas # {}

(* certify_schema_snapshot and AnalysisOutcome::complete: without a schema *)
(* in scope the snapshot is always rejected.                               *)
Certify ==
    /\ Running
    /\ Step = "certify"
    /\ \/ ScopeDeclared /\ Advance /\ UNCHANGED outcome
       \/ Fail(Rejection("validation_failed"))
    /\ UNCHANGED <<envVars, requestVars, snap, selected, sigs, reads>>

(* Variant: whatever the adapter found is taken.                           *)
EnforceNothing ==
    /\ Running
    /\ Step = "enforce"
    /\ outcome' = "complete"
    /\ at' = Len(Program) + 1
    /\ next' = 1
    /\ UNCHANGED <<envVars, requestVars, snap, selected, sigs, reads>>

(* enforce_requested_product, and the end of the analysis.                 *)
EnforceRequestedProduct ==
    /\ Running
    /\ Step = "enforce"
    /\ IF source \in {"mysql", "mariadb"} /\ server # source
       THEN Fail("unsupported_product")
       ELSE /\ outcome' = "complete"
            /\ at' = Len(Program) + 1
            /\ next' = 1
    /\ UNCHANGED <<envVars, requestVars, snap, selected, sigs, reads>>

Done == at > Len(Program) /\ UNCHANGED vars

Next ==
    \/ Ddl \/ Cancel \/ DeadlinePasses
    \/ Checkpoint \/ DeadlineCheck \/ TimeLeft \/ Configure
    \/ Call \/ Begin \/ Identify \/ SelectScope \/ Sign \/ Read \/ ReadFile
    \/ StatementFails \/ SqliteInterrupted \/ SqlServerInterrupted
    \/ StableSignature \/ StableReads \/ Map \/ Rollback \/ Certify
    \/ EnforceRequestedProduct \/ Done

Spec == Init /\ [][Next]_vars

-----------------------------------------------------------------------------
(* Properties.                                                             *)

Code == {"running", "complete", "cancelled", "timeout", "query_failed",
         "invalid_configuration", "unsupported_product",
         "unsupported_version", "catalog_changed", "internal",
         "metadata_mapping_failed", "validation_failed"}

(* Every variable holds a value of its kind.                               *)
DiscoveryTypeOK ==
    /\ cat \in CatalogState
    /\ ddls \in 0 .. MaxDdl
    /\ instants \subseteq CatalogState
    /\ source \in Source
    /\ server \in Speaks(source)
    /\ requested \subseteq Schema
    /\ token \in {"active", "in_time", "late"}
    /\ expired \in BOOLEAN
    /\ at \in 1 .. Len(Program) + 1
    /\ next \in Query
    /\ snap \in {<<>>} \union {<<c>> : c \in CatalogState}
    /\ selected \subseteq Schema
    /\ sigs \in [before : Rows, after : Rows]
    /\ reads \in [first : CatalogState, second : CatalogState]
    /\ outcome \in Code

(* A catalog that is accepted as complete is one the server really had, at *)
(* one instant between the first catalog query and the end, however the    *)
(* DDL of others fell between the queries: no mixture of two schemas is    *)
(* certified.  (A directory of DDL files is outside this promise.)         *)
AcceptedIsInstant ==
    outcome = "complete" /\ source # "ddl-sqlite" =>
        \E c \in instants :
            /\ reads.first.rows = c.rows
            /\ reads.first.schemas = c.schemas \intersect selected

(* Whatever DDL runs meanwhile, every schema asked for is in the scope     *)
(* that is certified.                                                      *)
ScopeSurvivesDdl ==
    outcome = "complete" /\ source \notin {"sqlserver", "odbc"} =>
        requested \subseteq reads.first.schemas

(* The same of every source.  SQL Server reads its schemas again and takes *)
(* those of the requested ones that are still there.                       *)
RequestedScopeCovered ==
    outcome = "complete" => requested \subseteq reads.first.schemas

(* A cancellation before the certification is through always gives a       *)
(* failed outcome, however late a driver call returns.                     *)
EarlyCancellationFails == outcome = "complete" => token # "in_time"

(* A complete result comes from the product the caller named; an ODBC      *)
(* source is only ever certified through the SQL Server strategy.          *)
CompleteIsRequestedProduct ==
    outcome = "complete" =>
        server = IF source = "odbc" THEN "sqlserver" ELSE source

(* A failure names what happened: a reported catalog change had a DDL      *)
(* statement after the first query, and never comes from a source whose    *)
(* reads share a snapshot; cancelled and timeout tell the two apart.       *)
FailuresNameTheirCause ==
    /\ outcome = "catalog_changed" =>
           Cardinality(instants) > 1 /\ source \notin Snapshotted
    /\ outcome = "cancelled" => Cancelled
    /\ outcome = "timeout" => expired
=============================================================================
