# TLA+ models of Database Memory

Database Memory indexes the *metadata* of a relational database into a local
graph cache (a SQLite file) and answers structure, impact and diff questions
from it, as a CLI and as an MCP server. This directory holds TLA+ models of the
parts of it that are hard to test, from the catalog of a server to the answer of a
tool, the TLC configurations that check them on small instances, and TLAPS proofs
of what matters most in each of them. `PROJECT.json` lists,
in machine-readable form, the components, runs, mutants, findings, hazards,
theorems, and for every definition the source lines it models.

Paths below are relative to `src/crates/database-memory-core/src/` unless they
say otherwise.

## 1. Inventory

### 1.1 The flow

```
 request ── CLI / MCP tool ── GraphStore::open (migrate)
                │
                ├── analyze_complete_source ── DatabaseAnalysisService ── adapter ── server
                │        (nine sources)            (checkpoints,          (catalog queries)
                │                                   certification)
                └── replace snapshot "source:alias" in one transaction ── cache file
                                                                             │
 request ── CLI / MCP tool ── list / describe / trace / impact / diff ───────┘
```

The CLI and the MCP server are separate processes; every request opens its own
connection, so several index runs and readers share one cache file and meet only
in SQLite's locks. There is no other shared state and no background work. The
analysis is sequential, except that the SQL Server adapter races its discovery
with a timeout and a cancellation poll, and that other sessions change the
analysed database while it is read.

### 1.2 Components

| Component | State | Operations | What makes it correct |
| --- | --- | --- | --- |
| Graph store (`graph_store.rs`) | `user_version`, snapshot, node and edge rows per key | open/migrate, `with_transaction`, insert, delete, paged and limited queries | a key's rows are one whole generation; one writer; newer caches untouched |
| Index pipeline (`interface_contract.rs` 355-394, CLI `main.rs`, MCP `tools.rs`) | none of its own | open, analyse, replace, report | a failed run never disturbs the last generation; every run ends |
| Graph builder (`graph_builder.rs`) | none | insert rows of a certified snapshot, compare with its declared counts | complete means the graph is as large as the certificate says |
| Contract readers (`interface_contract.rs` 552-917) | none; several statements per request | resolve a selector, summaries, pages, object details | exact without a replacement; what is cut is announced |
| Analysis service (`introspection.rs`, `analysis_outcome.rs`) | the cancellation token | validate, discover, certify, checkpoints | exactly `complete` or `failed`; cancelled in time is never complete |
| Adapters (`adapters/*_catalog.rs`, `odbc.rs`) | a connection, a transaction, raw rows | connect, identify, scope, read (twice), compare, validate, map, count again | the result is the catalog of one instant, of the product and scope asked for; every row is mapped and counted, or the whole catalog is refused |
| SQLite DDL source (`ddl/sqlite.rs`) | an in-memory database | apply files, map, certify | deadline and cancellation are honoured per file |
| Certification, canonical validation | none | predicates on one snapshot | discovered counts equal emitted counts; references closed |
| Traversals (`impact_analysis.rs`, `relationship_trace.rs`, `graph_query.rs`) | queue, visited, budget | breadth-first search with a bounded edge fetch | shortest depth, simple paths, complete unless truncated, within the limit |
| Schema diff (`schema_diff.rs`) | none | compare two snapshots, impact of the changes | exact counts, announced cuts |
| Object keys (`lib.rs`) | none | format, parse | different objects have different keys |
| Table tools, pagination (MCP `tools.rs`), CLI `metadata.rs`, `args.rs` | none | compatibility views over the same rows | pages partition the list |
| Configuration, redaction, path policy, benchmark support | none | parsing and text | not modelled |

### 1.3 The hard behaviours

* *Failure and crash in the middle of a replacement* (statement error, failed
  `COMMIT`, process death) and *two index runs at once*.
* *Readers that use several statements* while a run replaces the snapshot.
* *DDL of other sessions* between the many catalog queries of one analysis, DDL
  that is undone again included.
* *Cancellation and deadline* racing with completion, and being told apart.
* *Catalogs nobody tried*: names that meet after folding or joining, references
  that leave the selected schemas, dependencies without an edge type, rows that do
  not arrive, objects in the recycle bin. An adapter has to store all of it or
  refuse all of it, and it must count what it read a second time, independently.
* *Budgets*: limits that count edges rather than results, limits at exactly the
  size of the result, zero and "unlimited".

`PROJECT.json` lists them as hazards, each at its line, with the properties that
cover it or the reason that none does.

## 2. Modules

| Module | Models | Kind |
| --- | --- | --- |
| `AtomicCache` | what the cache promises: a generation is replaced in one step or not at all | abstract specification |
| `SnapshotCache` | the SQLite file, migration, the replacement transaction, failures, crashes | detailed; refines `AtomicCache` |
| `CacheReaders` | the contract tools, one action per SQL statement, over `AtomicCache` | composition of readers and writer |
| `CachedReaders` | the same tools over `SnapshotCache`, each opening and migrating the file | composition; refines `CacheReaders` |
| `CatalogDiscovery` | one analysis: service, dispatch and the protocol of all adapters against DDL, cancellation, deadline | detailed |
| `Sorting` | lists in the order of a key, and their first elements: `ORDER BY`, `LIMIT`, sort, truncate | operators |
| `GraphTraversal` | the three bounded traversals and the edge queries they share | algorithm, against a reference |
| `CanonicalModel` | the canonical snapshot, both validators, emitted counts, the projection to nodes and edges | operators |
| `Certification` | mapped snapshot, certification, projection into the store | stages shared by all adapters |
| `AdapterFaults` | an unknown adapter that loses, repeats or misresolves elements | fault model over `Certification` |
| `SqliteMapping`, `MysqlMapping`, `PostgresMapping`, `SqlServerMapping` | read, check, map, count: the adapter between the server's rows and the certification | detailed, over `Certification` |
| `OracleCatalog`, `OracleMapping` | the same for Oracle: reading and `validate_raw_catalog`; mapping and counts | detailed, over `Certification` |
| `SchemaDiff` | the diff tool, one action per statement, against replacements; uses `GraphTraversal` for its impacts | composition |
| `Pagination` | `list_tables` and `list_columns` pages with `usize` arithmetic, and a client that follows them | algorithm |
| `ObjectKeys` | object keys written, parsed and made comparable | algorithm |
| `SnapshotCacheProofs`, `CacheReadersProofs`, `CatalogDiscoveryProofs`, `CertificationProofs`, `GraphTraversalProofs`, `SchemaDiffProofs`, `PaginationProofs` | theorems about the module of that name (`SnapshotCacheProofs` also about `CachedReaders`, `CertificationProofs` also about `AdapterFaults`) | proofs |
| `SortingProofs` | lemmas about `Sorting`, used by two of them | proofs |
| `MCAdapters` | one of the five adapters, or the unknown one, in front of certification and projection | composition and instance |
| `MCSnapshotTools` | diff, pages or keys | instance |
| other `MC…` | constants and catalogs for TLC | instances |

Definitions that a comment calls *Variant* are altered forms of the definition
below them. They are used only to show that a property depends on that definition.

### 2.1 SnapshotCache

State: `version` is `PRAGMA user_version`; `db[k]` the committed snapshot row,
node rows and edge rows of key `k`; `lock` the run that holds SQLite's write
lock; `work` its uncommitted rows; `pc`, `key`, `captured`, `payload` the program
position and locals of each run.

Actions follow the code of one index run: `StartRun` (the request arrives),
`ReadVersion` and `Migrate` (`GraphStore::open`), `AnalysisComplete` /
`AnalysisFailed`, `BeginImmediate`, `DeleteSnapshot`, `InsertSnapshot`,
`InsertNodes`, `InsertEdges`, `VerifyProjection` / `ProjectionMismatch`,
`Commit`. `StorageFails` is the error path of every statement, with the rollback
`with_transaction` performs; `Crash` is the death of the process, after which
SQLite's journal restores the committed rows. The loops over rows of one kind
are one step each: nobody sees how far an uncommitted loop has come.

What the builder inserts for a catalog (`NodesOf`, `EdgesOf`) and what its
certificate declares (`Declared`) are constants here; they may disagree. Which
snapshots make them disagree is the subject of `CanonicalModel` and
`Certification`.

### 2.2 CacheReaders

The store and the index runs are those of `AtomicCache` (which `SnapshotCache`
implements, see 4), so replacements are single steps and can fall between any
two statements of a reader. A reader has a request, the resolved key (or the
list of keys `list_snapshots` still has to summarise), the answer collected so
far, and, as history, the generations its snapshot had meanwhile (`spans`).
`Listing` puts objects in the order of their keys by rank, the position of an
object being the number of those before it.
Opening the store is one step here.

`CachedReaders` puts the same requests over the cache file. Its index runs are those
of `SnapshotCache`, with their transactions, failures and crashes. A request opens
the store as a run does (`GraphStore::open`): `ChecksVersion` reads the version and
`Migrates` migrates the file in a write transaction of its own, so that a request
too writes to the file, after a check that may be old (`checked`); `FailsToOpen` is
the refusal of a newer file or a busy lock. Every other statement is that of
`CacheReaders` over the committed rows (`Found`).

### 2.3 CatalogDiscovery

An adapter is the sequence of its steps (`PostgresSteps`, `MysqlSteps`, …), in the
order of its `discover` function; `Service` wraps it with the checkpoints and the
certification of `DatabaseAnalysisService`, `Program` adds the dispatch and
`enforce_requested_product`. One action per kind of step advances the position
`at`; loops over queries use `next`.

The catalog is a set of schemas and, for every query, a version number of the
rows it returns. A DDL statement changes any of them at once. Under the sources in
`Reuse` it may also restore earlier contents. Transactions of PostgreSQL,
YugabyteDB, Oracle and SQLite see the catalog as of their snapshot; MySQL's
dictionary and SQL Server's catalog views do not take part in one. That is
knowledge about those servers, and the map marks it external.

`Cancel` and `DeadlinePasses` can happen before every step. The CLI and the MCP
server pass a token that nobody sets; cancellation is a promise of the library's
`…_with_cancellation` entry points, around the same code.

Mapping and certification either accept or reject here, except that a scope without
schemas is always rejected (`ScopeExists`, `ScopeDeclared`): the properties about the
scope depend on that. What else they compute is the subject of the modules of 2.5: the two halves are separate because the protocol
never looks into a row and the mapping never talks to the server.

### 2.4 GraphTraversal

Every step takes a path off the queue and expands it. `impact` and `query` keep
one visited set, `trace` one per path; `impact` and `trace` spend a budget of
fetched edges, `query` of found nodes; `impact` queues the last level and skips
it. The state is the path by which a node was found, where the code keeps the
node and its depth. Edge keys are numbers in the order SQLite sorts them; sorting
is by rank (`Sorting`), and the reference for depth and completeness are the walks
from the start, so that both are plain set theory to the provers.
`truncated` may be set although nothing was lost (the fetched edges of the next
node lead nowhere new): the property claims one direction only. The run has edges of
two priorities, dependencies and one of the five ownership types; the code has three,
which the proofs of 4.5 cover, and gives `METADATA_PARENT` the first.

### 2.5 From rows to a stored graph

`CanonicalModel` holds the value all adapters produce: a record with one set per
collection of `CanonicalSchemaSnapshot`. The collections are vectors in the code,
so every element carries in `row` the catalog row it was made from; two elements
with one key stay two. `validate_schema_snapshot` and
`validate_canonical_schema_snapshot` are predicates, `emitted_object_counts` and
`emitted_relationship_counts` functions on the categories, `GraphEdges` the edges
the builder inserts, with the dependency kinds it has no edge for left out as the
code leaves them out.

`Certification` has the variables every adapter shares (`snapshot`, `discovered`,
`stage`, `graph`) and the actions `Certify` and `Store`. `Store` is the transaction of
`insert_certified_schema_snapshot_graph` as a whole: the edge table's foreign keys
refuse an edge without its nodes, a second insert of a key updates the row of the
first (both tables are upserted, so that `graph` holds rows and not requests),
`verify_projection_counts` counts the rows, and a failure of either leaves the store as
it was. Its statements, one by one and with crashes, are `SnapshotCache`'s. An adapter module extends
it with its stages: it reads (`raw`), refuses what it cannot prove, maps one group
of collections per action (`MappingStep`: the whole function, every early return
refuses the catalog) and counts the rows a second time. `server` (or `file`) is the
catalog it reads, and never changes.

| Module | What a catalog is | Specific to it |
| --- | --- | --- |
| `SqliteMapping` | what the `CREATE` statements of a file declare; what SQLite derives from them (implicit indexes, auxiliary index terms, authorizer reads) is external | names compared without case, `ConstraintNameAllocator`, PRAGMA rows cross-checked with the parsed statement |
| `MysqlMapping` | rows of `INFORMATION_SCHEMA`; all arrive, or all but one | privileges by grants, reconciliation of `STATISTICS`, `KEY_COLUMN_USAGE` and the constraint tables, `lower_case_table_names`, MariaDB sequences |
| `PostgresMapping` | rows of `pg_catalog` by oid | several schemas, dropped columns, types of every kind, overloaded routines, `pg_depend`; YugabyteDB's placement, whose function may miss a relation |
| `SqlServerMapping` | rows of the `sys` views by id; definitions as token sequences | refusal of dynamic SQL, dependencies by id and by four-part name, external references, table types, indexed views, policies |
| `OracleCatalog`, `OracleMapping` | rows of some forty dictionary views; all arrive, or all but one | inventory compared with every detail view, recycle bin, materialized views that take the place of their tables, packages and their routines, partitions and LOBs, refusal of dynamic PL/SQL |

`AdapterFaults` replaces the adapter by one that maps a valid snapshot with every
collection in use and then makes up to `MaxFaults` errors. It asks what
certification alone guarantees, whoever wrote the adapter.

Names, texts, types and properties are present or absent, no more, unless a check
depends on them. SQL is a short sequence of tokens where the code scans tokens, and
a set of accesses where it asks a parser.

### 2.6 The tools over stored snapshots

`SchemaDiff`: selectors are resolved, four statements read nodes and edges, the
rows are compared and every added, removed or changed node seeds an impact
analysis, the `impact` traversal of `GraphTraversal` over the graph stored at that
moment. `Reindex` may replace either snapshot between any two statements. Objects
are numbers in the order of their comparable keys. The statements of one traversal
round, and the two of `resolve_snapshot_key`, are one step each.

`Pagination` follows a client that starts at any offset and asks for the next page
while `has_more` is true, with a `usize` of `Width` bits. `ObjectKeys` writes a key,
parses it in the current and the older form and forms the comparable key of a diff;
texts are sequences of characters.

## 3. Runs

| Run | Question | Bounds | Outcome |
| --- | --- | --- | --- |
| `cache` | can failures, crashes or a second run leave anything but whole generations? is every behaviour one of `AtomicCache`? does every run end and return the lock? | 2 runs, 2 keys, 3 catalogs (one that does not reconcile), 2 clock ticks, caches of older, this and newer schema | holds |
| `readers` | are pages, summaries and truncation flags right? | 1 reader, 1 run, 2 keys sharing an alias, page limits 0 to beyond the maximum | holds |
| `readers_page` | does a page under a replacement announce what it omits? | as above | **violated** |
| `discovery` | is an accepted catalog one instant's catalog, of the right product and scope, and are failures named correctly? | 9 sources, 2 schemas, 2 queries per read, 2 DDL statements; those under the snapshot sources may restore | holds |
| `discovery_signature` | and MySQL's signatures, when DDL may restore? | 2 queries, 2 DDL statements | **violated** |
| `discovery_scope` | are all requested schemas in a complete SQL Server result? | 1 query, 1 DDL statement | **violated** |
| `traversal` | depth, paths, completeness, limit and priority | every graph of at most 3 edges of 2 priorities over 3 nodes, depth 0-2, limit 0-2 and unlimited, all directions | holds |
| `adapters` | do mapping and counts agree, is exactly the unsupported refused, is every reference stored, is nothing wrong stored? | five adapters over almost 3,000 catalogs; 2 errors of the unknown adapter; 1 lost row | holds |
| `adapters_types` | is every use of a user-defined type stored? | the same catalogs | **violated** |
| `adapters_dynamic` | is every definition that executes text refused? | the same catalogs | **violated** |
| `tools` | are diffs patches, pages exact, keys read back? | 3 snapshot keys, 3 generations, 2 replacements, limits 0, 1 and 5 (maximum 4); 3-bit offsets; texts of 1 to 3 characters | holds |
| `diff_alias` | is a schema under two aliases without differences? | as above | **violated** |

Why the bounds suffice for the interesting cases. Two runs are enough for every
conflict about one lock; catalogs A and B share an object, so a mixture of
generations is visible; two queries per read are the least that can be torn, and
two DDL statements the least that can change something and change it back; three
nodes and three edges hold a cycle, parallel edges, a self loop, and a node with
more edges than the budget. The catalogs of `adapters` are a base, single features
and pairs of features (for SQLite all combinations), in every scope that separates
the schemas: a mapping joins at most two kinds of rows at a time, so a pair of
features is where names meet or a reference crosses; the largest ones ("Plenty")
hold everything at once, so that counts of many categories are compared together.
Two errors are the least that can cancel each other in a count. Two replacements
let each side of a diff change once, or one side change twice. A 3-bit `usize`
overflows, and a page can end exactly at its top.

Deadlock checking is off for `cache`, where a run ends and nobody has to start
another, and for `tools` and `diff_alias`, where an answered request is the end.
The others have an explicit stuttering step or never stop.

`MCCachedReaders.cfg` is an instance of `CachedReaders` (one key, two runs, two clock
ticks, one request; 200,000 states) for whoever changes it. It is not among the runs,
since its properties are proved (4.2).

### 3.1 What the passing adapter properties say

* `CountsAgree`: the counts taken of the rows equal what the mapping made of them,
  in every category. The code computes both, by different expressions; a
  disagreement would refuse a catalog that has nothing wrong with it.
* `StoredUnlessUnsupported`: a catalog is stored exactly when it has none of the
  features its module lists as unsupported, said of what is declared in it and not
  of what the mapping does. The lists are worth reading, because some entries are
  not announced anywhere: a PostgreSQL `serial` column (its sequence is used twice,
  by ownership and by default, which becomes a duplicate relationship), a MySQL
  CHECK that shares its name with a key of the same table, an Oracle dependency on
  an owner that is no user (`PUBLIC`), leftovers of recycled tables, a view that
  reads a materialized view, a routine that calls another.
* `ReferencesAreStored`: what the catalog records an object to refer to is linked.
* `LostRowsShiftNothing`: with a row missing, no column of a MySQL key or index takes
  the place of an earlier one, no column of a foreign key is paired with another's,
  and no object of Oracle's inventory is left out. What is lost at the end is not
  noticed: the remaining ordinals are contiguous, so that a UNIQUE `(b, a)` whose last
  row of `KEY_COLUMN_USAGE` is missing is stored as `(b)`, and an index with one row
  of `STATISTICS` not at all. Only a server that answers a query incompletely does that.
* `PlacementIsComplete`: every YugabyteDB relation and index has its placement.
* `CertifiedEdgesHaveNodes`, `StoredIsDiscovered`, `OnlyUnprojectedDependenciesFail`:
  for every adapter, the faulty one included, a certified snapshot never meets the
  foreign keys of the edge table, the stored graph is as large as what was counted in
  the catalog, and a certified snapshot fails to be stored only for a dependency kind
  without an edge.

### 3.2 What the violated runs show

* `readers_page`: `find_nodes_page` counts and selects in two statements
  (`graph_store.rs` 494). A replacement that commits in between yields a page
  that omits an object present in both generations, while `has_more`, computed
  from the older count, is false. The repository's README (line 43) says that
  "every bounded response reports clamping or truncation".
* `discovery_signature`: DDL between two of MySQL's reads that is undone before the
  second signature leaves the signatures equal; the accepted rows mix two catalogs.
  `docs/reports/database-memory-complete-rdb.phase-5.md` (48-51) says that
  concurrent DDL fails certification.
* `discovery_scope`: SQL Server's requested schemas are checked before the double
  read. Of two requested schemas the one that is dropped in between is missing from
  both, equal, reads, and the result is complete for the other. (Were it the only
  one, certification would reject the empty scope, `certification.rs` 259.) README line 47 says that catalog mutation
  fails closed.
* `adapters_types`: the type of a composite type's attribute (PostgreSQL), or of a
  sequence, column or parameter (SQL Server), is linked only if it is among the
  selected schemas, and dropped otherwise. `docs/plans/database-memory-complete-rdb.md`
  (68) says that no adapter may silently drop a discovered relationship.
* `adapters_dynamic`: `EXEC @rc = name.sp_executesql …` passes SQL Server's check,
  which looks at one token after the equals sign; Oracle's takes
  `OPEN c FOR '…'; SELECT …` for a static cursor, because literals are no words. Both
  adapters say that dynamic SQL fails closed.
* `diff_alias`: the SQL Server adapter stores object keys as texts in the properties
  of some objects. The diff removes fields named `connection_alias`, not aliases in
  texts, so these objects differ between two aliases of one schema. README line 34
  says that alias changes are not treated as schema changes.

With three DDL statements that alternate between two states, SQL Server's double
read can also be equal and torn. `discovery` keeps to DDL that restores nothing
there, for which comparing reads is sound.

### 3.3 Fairness

`cache` assumes `WF_vars(Progress(i))` for its liveness properties: a run that can
take its next step eventually does. The code justifies it because each step is a
call that returns: a statement waits for a lock at most SQLite's busy timeout and
then fails, and an analysis is bounded by `timeout_ms`. A failing statement is a
step as well, so no strong fairness is needed to get past a lock others keep
taking. Nobody has to start a run, and crashes are never required.

## 4. Proofs

Each theorem holds for every value of the constants that satisfies the named
assumption of its module; TLC evaluates the assumptions on every run. A theorem
about a property of a run is the run's result without its bounds.

### 4.1 The snapshot cache

For every set of keys, objects and catalogs, every number of runs and every clock
bound (`SnapshotCacheProofs`):

| Theorem | Statement |
| --- | --- |
| `Invariance` | `Spec => []IInv` |
| `TypeCorrect` | `Spec => []TypeOK` |
| `GenerationsStayWhole` | `Spec => []WholeGenerations` |
| `CompleteIsReconciled` | `Spec => []CompleteMeansReconciled` |
| `SingleWriter` | `Spec => []OneWriter` |
| `SnapshotsStay` | `Spec => SnapshotNeverVanishes` (an action property) |
| `NewerCacheStays` | `Spec => NewerCacheUntouched` (an action property) |
| `Refinement` | `Spec => ImplementsAtomicCache` |

Assumptions: the builder's functions are functions on
`Catalog`, and edges of a catalog join nodes of it (canonical validation rejects
dangling references); the sentinels `NoOne` and `Absent` are not runs and not rows;
bounds are naturals; there is a key and a catalog.

The argument. `WholeGenerations` is not inductive: nothing in it says what a
commit installs. `IInv` adds `WorkInProgress` (at each position inside the
transaction `work` is exactly the part of the new generation written so far, and
at the commit the counts have been compared), `OneWriter` (so only the holder of
the lock changes `work`) and `VersionGate` (a run past the version check works on
a file it understands). Every action then either leaves `db` alone or is `Commit`,
which installs a whole, reconciled generation. The action properties and the
refinement follow from `IInv`: `Commit` maps to `Publish`, failures and crashes to
`Abandon`, everything else to stuttering.

### 4.2 The readers

For any number of readers and index runs, any requests and generations
(`CacheReadersProofs`), of `ReaderSpec`:

| Theorem | Property |
| --- | --- |
| `ReaderInvariant`, `ReaderTypes` | `ReaderIInv`, `ReaderTypeOK` |
| `ResolvedStays` | `ResolvedSnapshotStays`: the code's `expect` on a resolved key is never reached without a snapshot |
| `QuietPages`, `QuietSummaries` | `QuietPageIsExact`, `QuietSummaryIsExact` |
| `TruncationExact` | `RelationshipTruncationIsExact`, under replacements too |

Assumptions: requests are well formed; objects are numbers, a catalog has finitely
many, and its edges join them; `Absent` is not a generation.

The argument. The properties speak of answered requests only. `ReaderIInv` says for
a request at *every* statement what it has read (`Serving`): the tool it is in; that
its key holds a snapshot and `spans` the ones it held (`Holds`); that what was read
so far is a function of the generation when there was only one (`ReadFrom`); and
which generation each relationship list came from when there were several
(`Traced`). A publication can only enlarge `spans`, which takes the premise of
`ReadFrom` away and leaves `Traced` as it is.

Of `CachedSpec`, the same requests over the cache file (`SnapshotCacheProofs`):

| Theorem | Statement |
| --- | --- |
| `FileInvariance` | `CachedSpec => []FileIInv` |
| `RequestsAreHarmless` | `WholeGenerations`, `CompleteMeansReconciled`, `SnapshotNeverVanishes` and `NewerCacheUntouched` also hold while every request migrates the file |
| `CachedInvariance` | `CachedSpec => []CachedIInv`, if `RequestsFit` |
| `CachedRefinement` | `CachedSpec => ImplementsReaders`, if `RequestsFit`: requests over the file are requests over `AtomicCache` |
| `CachedReadsAreExact` | `ResolvedSnapshotStays`, `QuietPageIsExact`, `QuietSummaryIsExact` and `RelationshipTruncationIsExact` over the cache file, if `RequestsFit` |

`RequestsFit` is the assumptions of `CacheReaders`, for the generations of the file.
`FileIInv` adds to `IInv` that a request between its version check and its migration
faces a file of this release or older (`CheckedGate`). The refinement of 4.1 maps a
step of an index run to one of `AtomicCache` or to nothing. In the latter case `spans`
must not change either, and it does not because `ReaderIInv` says that what the key of
a request holds is recorded already (`IndexOrStutter`); so the refinement needs the
invariant of the requests, and the invariant is kept because the steps refine. The
reader's properties are then those of 4.2, cited for this instance.

### 4.3 One analysis

For any sources, schemas, number of queries and of DDL statements
(`CatalogDiscoveryProofs`):

| Theorem | Property |
| --- | --- |
| `DiscoveryInvariant`, `DiscoveryTypes` | `DiscoveryIInv`, `DiscoveryTypeOK` |
| `EarlyCancellation` | `EarlyCancellationFails` |
| `RequestedProduct` | `CompleteIsRequestedProduct` |
| `CausesAreNamed` | `FailuresNameTheirCause` |
| `ScopeSurvives` | `ScopeSurvivesDdl` |
| `AcceptedWasThere` | `AcceptedIsInstant`, if `Reuse` has only sources that read under a snapshot |

The hypothesis of `AcceptedWasThere` is the boundary of what the code achieves:
`discovery_signature` is a counterexample without it. The run `discovery` meets it.

The argument. `DiscoveryIInv` adds to the position in the program (`ControlInv`) and
to the checks passed (`CheckedInv`, `FailuresNameTheirCause`) what the rows read so
far say about the catalogs that existed meanwhile (`instants`), by the protocol of
the source. `SnapshotInv`: all rows are those of the one catalog under the snapshot.
`ObservedInv`: whatever has been read once was there. `SignedInv`: where nothing is
restored, versions only grow, so rows read between two signatures lie between them,
and equal signatures leave one catalog. `TwiceInv`: there was a catalog between the
two reads, whose versions are at least those of the first and at most those of the
second, and whose schemas, which only go away, the other way round; equal reads are
that catalog.

### 4.4 Certification and the store

For every snapshot any adapter could hand over (`CertificationProofs`).
`PipelineSpec` has an adapter that does anything at all before the certification,
followed by the actions `Certify` and `Store` of the model:

| Theorem | Statement |
| --- | --- |
| `PipelineInvariant` | `PipelineSpec => []PipelineIInv` |
| `ForeignKeysHold` | `PipelineSpec => []CertifiedEdgesHaveNodes` |
| `StoredAsDiscovered` | `PipelineSpec => []StoredIsDiscovered` |
| `UpsertsNeverUpdate` | `PipelineSpec => []NothingOverwritten`: in a certified snapshot no upsert hits a row of the same projection |
| `OnlyUnprojectedFail` | `PipelineSpec /\ []IsSnapshot(snapshot) => []OnlyUnprojectedDependenciesFail` |
| `FaultsImplementPipeline` | `FaultsSpec => PipelineSpec` |
| `FaultsKeepSnapshots` | `FaultsSpec => []IsSnapshot(snapshot)` |
| `FaultsAreContained` | the four properties of `FaultsSpec`, for any number of errors |

`PipelineIInv` remembers, after the certification, that the snapshot is valid and
its counts agree with what was discovered; in the end, that the stored graph is its
projection; and of a projection that failed, which check refused it. What remains is
about the validators. References they resolve are the ends of the edges the builder
inserts, which the foreign keys of the edge table ask for; a snapshot they accept has
no two elements of one key, as many keys as rows in every category, and edges that
are determined by their keys, so that an upsert always inserts.

`IsSnapshot` says what the vectors and structs of the code are: finitely many
elements, each with the fields of its collection, its lists and sets of keys finite.
`UpsertsNeverUpdate` and `OnlyUnprojectedFail` need it. TLC checks it of every adapter, as
part of `PipelineTypeOK`; `FaultsKeepSnapshots` proves it of the adapter with errors.

`OnlyUnprojectedFail` says that a certified snapshot has the nodes and the edges that
were counted, unless a dependency has no edge type. The counts of the code are sums
over rows. `SumOver` defines such a sum as the number of places `<<row, i>>` there are,
so it is the cardinality of a union, and no step is an induction over rows. The nodes
are then a disjoint union by kind (`NodesCounted`), and the edges one by category
(`GraphInParts`, `PartsApart`), each part as large as its count (`PartsCounted`): the
ownership edges are their elements, the column edges the places of the lists, the
dependency edges the pairs of an owner and a key. The parts are apart because the
validators pin the kinds of the ends, and no place is counted twice because they
refuse duplicates in the lists (`EdgesCounted`).

### 4.5 The traversals

For every graph, kind, direction, filter, depth and limit (`GraphTraversalProofs`):

| Theorem | Property |
| --- | --- |
| `TraversalInvariant`, `TraversalTypes` | `TraversalIInv`, `TraversalTypeOK` |
| `LimitIsKept` | `LimitHolds` |
| `TracedPathsAreSimple` | `PathsAreSimple` |
| `DepthsAreDistances` | `DepthIsDistance` |
| `EvidenceFirst` | `EvidenceBeforeOwnership` |
| `CutsAreAnnounced` | `CompleteUnlessTruncated` |

Assumptions: the start is a node, the bounds are naturals and "unlimited" is none.
The set of nodes may be infinite.

The argument. `BudgetInv`: results and remaining budget together stay within the
limit, since every result was paid for by a fetched edge. `TraceInv`: a path on the
queue has not been extended, any other has been along every edge that does not
return to it. `LevelInv`: the queue holds at most two levels in order, each visited
node was reached once and at its distance, and every neighbour of what has left the
queue was seen, unless the loop was stopped, which sets the flag. When the queue is
empty nothing is left to find. That distances and simple paths are all found uses
the least counterexample among the depths, a first-order statement about sets of
numbers, so no induction over data is needed. `EvidenceFirst` rests on what `Sorted`
and `FirstOf` return (`SortingProofs`): the two directions are cut at one more than
the budget, merged and cut again, and nothing is lost that the final cut would keep.

### 4.6 The schema diff

For any snapshots, generations, requests and number of replacements
(`SchemaDiffProofs`), of `DiffSpec`:

| Theorem | Property |
| --- | --- |
| `DiffInvariant`, `DiffWhole` | `DiffIInv`, `WholeInv /\ DoneInv` |
| `DiffTypes` | `DiffTypeOK` |
| `DiffsArePatches` | `DiffIsPatch` |
| `DiffsAreComplete` | `DiffIsComplete` |

Assumptions: objects are numbers, a generation has finitely many, and a sequence of
edges that join them; `Missing` is not a generation; the maximal limit is positive;
"unlimited" is not a number the shared budget can be.

The argument. `DiffIsPatch` speaks of compared rows, so `DiffIInv` says where the
rows come from before that (`RowsInv`: each is the node or edge map of one whole
generation its key held), that a resolved key keeps a snapshot (`EndsInv`,
`WorldInv`), and that seeds are in such snapshots and the shared budget is between
zero and the limit (`SeedsInv`). The comparison sorts finite sets by a strict order;
the counts are their cardinalities and an uncut list is the whole set, so the lists
applied to the older map give the newer one. A replacement only adds to what a key
held and leaves the result a patch.

`DiffIsComplete` is about the analyses that follow, and needs a second invariant.
`ListsInv` and `CoverInv` follow each listed object from the list of seeds through
the analysis in hand to the finished ones. `SumInv` is the shared budget: nodes found
(one for each seed they were found from) and what remains keep to the limit, because
a round finds no more nodes than it fetches edges. `SearchInv` is the search under
way: what is visited, that a path ends within as many edges as it has, and, unless
something was cut, that all that is beside the seed has a path of its own and all
that is beside the end of one was visited once it has left the queue. The last two
hold while both snapshots are `Settled`: a replacement between two rounds ends them
for good, which is why `Quiet` is a premise of the property. `DepthIsDistance` of
4.5 is not used: there the graph is constant, here it may be replaced.

### 4.7 The pages

`PaginationProofs`, for every width of `usize`, page limit, list, offset and limit:
`PagesExact == PageSpec => []PagesAreExact`. `PageIInv` says that what the client has
been given are the consecutive items between its first and its next offset, and that
no request follows the last page; the saturating sum is equal to the true one
whenever the comparison with the total lets the client go on.

### 4.8 What is only model-checked

* Liveness (`EveryRunEnds`, `LockReleased`): out of the prover's reach.
* `AdaptersTypeOK`, `CountsAgree`, `ReferencesAreStored`, `LostRowsShiftNothing`,
  `PlacementIsComplete`, `StoredUnlessUnsupported`: properties of five concrete
  mappings over catalogs of small shape. Folds over rows and the composition of all
  five by `INSTANCE` keep them with TLC; what holds of every adapter is proved in 4.4.
* `KeysRoundTrip`: formatting and parsing recurse over texts.

## 5. Not modelled

* SQL text and its parsers (`sqlite_sql.rs`, the view parser of MySQL, the
  tokenizers): the models take the parsed result.
* Properties, comments, default expressions, statistics and definitions beyond
  whether they are there and within their size limit.
* Oracle: a dependency that is recorded both as `TABLE` and as
  `MATERIALIZED VIEW` of one name, and checks of single rows whose values the
  instances do not vary.
* ODBC driver capabilities, which are one step of `CatalogDiscovery`; the statement
  allow-list and byte cap of DDL files.
* The filters of `query_graph`; the text search of `find_nodes_page`; single-row
  helpers of the store that no tool calls.
* Text: redaction, error wording, output formats, argument and TOML parsing
  (`args.rs`, `metadata.rs`, `config.rs`, `redact.rs`).
* The MCP path policy, whose state is the file system, and benchmark support.
* A newer release that migrates a cache while this one is between its version
  check and its own `BEGIN`.
* Functions like `pg_get_viewdef`, which may read the current catalog rather than
  the transaction's snapshot.
* A directory of DDL files is read file by file without a stability check;
  `AcceptedIsInstant` says nothing about it.
* `captured_at` is taken before the write lock is awaited, so of two runs the one
  that analysed earlier may commit last. No document orders generations by it.

## 6. Plan

Done, in this order: `SnapshotCache` and `AtomicCache` with the refinement and its
proofs; `CacheReaders`; `CatalogDiscovery`; `GraphTraversal`; `CanonicalModel`,
`Certification` and `AdapterFaults`; the five mappings; `SchemaDiff`, `Pagination`
and `ObjectKeys`.

Then the proofs: the cache with its refinement, pages, discovery, readers,
certification, traversals, patches and completeness of the diff, the counts of the
projection, and the readers over the cache file.

Left open: what a recursive definition computes for every input, and liveness, stay
with TLC (4.8). The mappings are checked on catalogs of small shape; a proof about one
would be about its rows and names rather than about what it promises, which 4.4 states
for every adapter.
