---------------------------- MODULE SnapshotCache ----------------------------
(***************************************************************************)
(* The snapshot cache: the SQLite file of graph_store.rs, how a store is   *)
(* opened and migrated, and how an index run replaces the snapshot of one  *)
(* key (index_complete_source, insert_certified_schema_snapshot_graph).    *)
(*                                                                         *)
(* Several index runs work on one cache file: the CLI and the MCP server   *)
(* are separate processes and each request opens its own connection.  A    *)
(* run analyses its source first and writes afterwards, in one write       *)
(* transaction (BEGIN IMMEDIATE ... COMMIT), whose rows nobody else sees   *)
(* before the commit.  Any statement can fail (busy after SQLite's         *)
(* timeout, disk full, I/O) and a process can die at any step.             *)
(*                                                                         *)
(* The file holds, for every key, a snapshot row, node rows and edge rows. *)
(* The loops that insert the rows of one kind are one step each: no other  *)
(* process can tell how far an uncommitted loop has come, and a failure    *)
(* anywhere in it discards the whole transaction.                          *)
(***************************************************************************)
EXTENDS Naturals, FiniteSets

CONSTANTS
    Key,        \* snapshot keys, "source:alias"
    Object,     \* stable object keys
    Catalog,    \* schema contents an analysis can certify
    NodesOf,    \* NodesOf[c]: node keys the builder inserts for catalog c
    EdgesOf,    \* EdgesOf[c]: edges <<from, to>> it inserts for catalog c
    Declared,   \* Declared[c]: certified_graph_projection_counts of c
    Indexer,    \* index runs that can be active at the same time
    NoOne,      \* nobody holds the write lock
    Absent,     \* no snapshot row
    MaxClock    \* bound on the clock, and with it on the number of runs

GRAPH_STORE_SCHEMA_VERSION == 2

ASSUME CatalogAssumption ==
    /\ NodesOf \in [Catalog -> SUBSET Object]
    /\ EdgesOf \in [Catalog -> SUBSET (Object \X Object)]
    /\ Declared \in [Catalog -> [objects : Nat, graph_edges : Nat]]
    \* canonical validation: no relationship has a missing endpoint
    /\ \A c \in Catalog : EdgesOf[c] \subseteq NodesOf[c] \X NodesOf[c]

ASSUME SentinelAssumption == NoOne \notin Indexer

ASSUME BoundAssumption == MaxClock \in Nat

ASSUME RequestAssumption == Key # {} /\ Catalog # {}

VARIABLES
    version,    \* PRAGMA user_version of the file
    db,         \* committed rows of every key
    lock,       \* the run whose write transaction is open, or NoOne
    work,       \* uncommitted rows of the key that transaction replaces
    clock,      \* now_unix_ms
    pc,         \* where each run is; a finished run stays at its outcome
    key,        \* the snapshot key of each run
    captured,   \* captured_at_unix_ms of each run
    payload     \* the certified catalog of each run

storeVars == <<version, db, lock, work>>
runVars == <<clock, pc, key, captured, payload>>
vars == <<version, db, lock, work, clock, pc, key, captured, payload>>

Stamp == 0 .. MaxClock
Authority == {"complete", "legacy_non_authoritative"}
Row == [payload : Catalog, authority : Authority, captured_at : Stamp]
Slot == [row : Row \union {Absent},
         nodes : SUBSET (Object \X Catalog),
         edges : SUBSET (Object \X Object)]

ASSUME AbsentAssumption == Absent \notin Row

EmptySlot == [row |-> Absent, nodes |-> {}, edges |-> {}]

(* A node row is its key and the catalog its payload_json was taken from.  *)
NodeRows(c) == {<<o, c>> : o \in NodesOf[c]}

WholeSlot(c, authority, at) ==
    [row |-> [payload |-> c, authority |-> authority, captured_at |-> at],
     nodes |-> NodeRows(c), edges |-> EdgesOf[c]]

Outcome == {"idle", "complete", "failed", "crashed"}
InTransaction == {"delete", "snapshot", "nodes", "edges", "verify", "commit"}
Opening == {"open", "migrate"}
PC == Outcome \union Opening \union {"analyze", "begin"} \union InTransaction

TypeOK ==
    /\ version \in Nat
    /\ db \in [Key -> Slot]
    /\ lock \in Indexer \union {NoOne}
    /\ work \in Slot
    /\ clock \in Stamp
    /\ pc \in [Indexer -> PC]
    /\ key \in [Indexer -> Key]
    /\ captured \in [Indexer -> Stamp]
    /\ payload \in [Indexer -> Catalog]

-----------------------------------------------------------------------------

(***************************************************************************)
(* A new file, a cache of this or an older release that holds legacy       *)
(* snapshots (payloads without a contract_version), or a file of a newer   *)
(* release.                                                                *)
(***************************************************************************)
Init ==
    /\ version \in 0 .. GRAPH_STORE_SCHEMA_VERSION + 1
    /\ db \in [Key -> {EmptySlot} \union
                 {WholeSlot(c, "legacy_non_authoritative", 0) : c \in Catalog}]
    /\ version = 0 => db = [k \in Key |-> EmptySlot]
    /\ lock = NoOne
    /\ work = EmptySlot
    /\ clock = 0
    /\ pc = [i \in Indexer |-> "idle"]
    /\ key = [i \in Indexer |-> CHOOSE k \in Key : TRUE]
    /\ captured = [i \in Indexer |-> 0]
    /\ payload = [i \in Indexer |-> CHOOSE c \in Catalog : TRUE]

Goto(i, from, to) ==
    /\ pc[i] = from
    /\ pc' = [pc EXCEPT ![i] = to]

(* Variant: a dropped connection leaves its lock behind. *)
DisconnectKeepsLock(i) == UNCHANGED <<lock, work>>

(* The connection is dropped: an open transaction of run i rolls back.     *)
Disconnect(i) ==
    /\ lock' = IF lock = i THEN NoOne ELSE lock
    /\ work' = IF lock = i THEN EmptySlot ELSE work

(***************************************************************************)
(* Opening the store.                                                      *)
(***************************************************************************)

(* Time passes, and a request arrives that names a source and an alias.    *)
StartRun(i, k) ==
    /\ pc[i] \in Outcome
    /\ clock < MaxClock
    /\ clock' = clock + 1
    /\ pc' = [pc EXCEPT ![i] = "open"]
    /\ key' = [key EXCEPT ![i] = k]
    /\ UNCHANGED <<storeVars, captured, payload>>

(* Variant: a file of a newer release is migrated like any other. *)
ReadVersionUnchecked(i) ==
    /\ Goto(i, "open", "migrate")
    /\ UNCHANGED <<storeVars, clock, key, captured, payload>>

(* migrate: the version is read before, and outside, the migration's       *)
(* transaction; a file of a newer release is refused.                      *)
ReadVersion(i) ==
    /\ Goto(i, "open", IF version > GRAPH_STORE_SCHEMA_VERSION
                       THEN "failed" ELSE "migrate")
    /\ UNCHANGED <<storeVars, clock, key, captured, payload>>

(* migrate: BEGIN IMMEDIATE, create what is missing, stamp the version,    *)
(* COMMIT.  The caller then reads the clock and starts the analysis.       *)
Migrate(i) ==
    /\ Goto(i, "migrate", "analyze")
    /\ lock = NoOne
    /\ version' = GRAPH_STORE_SCHEMA_VERSION
    /\ captured' = [captured EXCEPT ![i] = clock]
    /\ UNCHANGED <<db, lock, work, clock, key, payload>>

(***************************************************************************)
(* The analysis, which ends in a certified catalog or in a failure before  *)
(* anything is written.                                                    *)
(***************************************************************************)
AnalysisComplete(i, c) ==
    /\ Goto(i, "analyze", "begin")
    /\ payload' = [payload EXCEPT ![i] = c]
    /\ UNCHANGED <<storeVars, clock, key, captured>>

AnalysisFailed(i) ==
    /\ Goto(i, "analyze", "failed")
    /\ UNCHANGED <<storeVars, clock, key, captured, payload>>

(***************************************************************************)
(* The replacement: with_transaction around delete, inserts, verification. *)
(***************************************************************************)

(* Variant: BEGIN DEFERRED, which does not take the write lock. *)
BeginDeferred(i) ==
    /\ Goto(i, "begin", "delete")
    /\ lock' = i
    /\ work' = db[key[i]]
    /\ UNCHANGED <<version, db, clock, key, captured, payload>>

(* BEGIN IMMEDIATE takes SQLite's single write lock. *)
BeginImmediate(i) ==
    /\ Goto(i, "begin", "delete")
    /\ lock = NoOne
    /\ lock' = i
    /\ work' = db[key[i]]
    /\ UNCHANGED <<version, db, clock, key, captured, payload>>

(* Variant: the delete is committed by itself. *)
DeleteSnapshotAutocommit(i) ==
    /\ Goto(i, "delete", "snapshot")
    /\ work' = EmptySlot
    /\ db' = [db EXCEPT ![key[i]] = EmptySlot]
    /\ UNCHANGED <<version, lock, clock, key, captured, payload>>

(* delete_snapshot: the row, and through ON DELETE CASCADE its graph.      *)
DeleteSnapshot(i) ==
    /\ Goto(i, "delete", "snapshot")
    /\ work' = EmptySlot
    /\ UNCHANGED <<version, db, lock, clock, key, captured, payload>>

(* Variant: an authority label that is not of the contract. *)
InsertSnapshotMislabelled(i) ==
    /\ Goto(i, "snapshot", "nodes")
    /\ work' = [work EXCEPT !.row =
                  [payload |-> payload[i], authority |-> "partial",
                   captured_at |-> captured[i]]]
    /\ UNCHANGED <<version, db, lock, clock, key, captured, payload>>

(* insert_snapshot, an upsert of the snapshot row. *)
InsertSnapshot(i) ==
    /\ Goto(i, "snapshot", "nodes")
    /\ work' = [work EXCEPT !.row =
                  [payload |-> payload[i], authority |-> "complete",
                   captured_at |-> captured[i]]]
    /\ UNCHANGED <<version, db, lock, clock, key, captured, payload>>

(* insert_node for every object: upserts that need the snapshot row.       *)
InsertNodes(i) ==
    /\ Goto(i, "nodes", "edges")
    /\ work.row # Absent
    /\ work' = [work EXCEPT !.nodes =
                  {n \in @ : n[1] \notin NodesOf[payload[i]]}
                     \union NodeRows(payload[i])]
    /\ UNCHANGED <<version, db, lock, clock, key, captured, payload>>

(* insert_edge for every relationship: upserts that need both node rows.   *)
InsertEdges(i) ==
    /\ Goto(i, "edges", "verify")
    /\ \A e \in EdgesOf[payload[i]] :
          {e[1], e[2]} \subseteq {n[1] : n \in work.nodes}
    /\ work' = [work EXCEPT !.edges = @ \union EdgesOf[payload[i]]]
    /\ UNCHANGED <<version, db, lock, clock, key, captured, payload>>

(* Variant: only the objects are compared. *)
ProjectionMatchesObjects(i) ==
    Cardinality(work.nodes) = Declared[payload[i]].objects

(* verify_projection_counts: the rows present against the counts of the    *)
(* completeness proof.                                                     *)
ProjectionMatches(i) ==
    /\ Cardinality(work.nodes) = Declared[payload[i]].objects
    /\ Cardinality(work.edges) = Declared[payload[i]].graph_edges

VerifyProjection(i) ==
    /\ Goto(i, "verify", "commit")
    /\ ProjectionMatches(i)
    /\ UNCHANGED <<storeVars, clock, key, captured, payload>>

(* ProjectionMismatch, and with it ROLLBACK. *)
ProjectionMismatch(i) ==
    /\ Goto(i, "verify", "failed")
    /\ ~ProjectionMatches(i)
    /\ Disconnect(i)
    /\ UNCHANGED <<version, db, clock, key, captured, payload>>

Commit(i) ==
    /\ Goto(i, "commit", "complete")
    /\ db' = [db EXCEPT ![key[i]] = work]
    /\ lock' = NoOne
    /\ work' = EmptySlot
    /\ UNCHANGED <<version, clock, key, captured, payload>>

(***************************************************************************)
(* Failures.                                                               *)
(***************************************************************************)

(* Variant: the nodes are committed as a batch of their own. *)
StorageFailsKeepsNodes(i) ==
    /\ pc[i] \in Opening \union {"begin"} \union InTransaction
    /\ pc' = [pc EXCEPT ![i] = "failed"]
    /\ db' = IF pc[i] = "edges" THEN [db EXCEPT ![key[i]] = work] ELSE db
    /\ Disconnect(i)
    /\ UNCHANGED <<version, clock, key, captured, payload>>

(* Variant: the error of COMMIT is ignored. *)
StorageFailsUnnoticed(i) ==
    /\ pc[i] \in Opening \union {"begin"} \union InTransaction
    /\ pc' = [pc EXCEPT ![i] = IF @ = "commit" THEN "complete" ELSE "failed"]
    /\ Disconnect(i)
    /\ UNCHANGED <<version, db, clock, key, captured, payload>>

(* Variant: a busy BEGIN IMMEDIATE is retried without a bound. *)
StorageFailsRetries(i) ==
    /\ pc[i] \in Opening \union {"begin"} \union InTransaction
    /\ pc' = [pc EXCEPT ![i] = IF @ = "begin" THEN "migrate" ELSE "failed"]
    /\ Disconnect(i)
    /\ UNCHANGED <<version, db, clock, key, captured, payload>>

(* A statement of the store fails, BEGIN IMMEDIATE and COMMIT included     *)
(* (SQLITE_BUSY after the busy timeout): ROLLBACK, and an error.           *)
StorageFails(i) ==
    /\ pc[i] \in Opening \union {"begin"} \union InTransaction
    /\ pc' = [pc EXCEPT ![i] = "failed"]
    /\ Disconnect(i)
    /\ UNCHANGED <<version, db, clock, key, captured, payload>>

(* The process dies; SQLite rolls its journal back on the next access.     *)
Crash(i) ==
    /\ pc[i] \notin Outcome
    /\ pc' = [pc EXCEPT ![i] = "crashed"]
    /\ Disconnect(i)
    /\ UNCHANGED <<version, db, clock, key, captured, payload>>

(* What the code of run i does once it has been asked to run.              *)
Progress(i) ==
    \/ ReadVersion(i)
    \/ Migrate(i)
    \/ \E c \in Catalog : AnalysisComplete(i, c)
    \/ AnalysisFailed(i)
    \/ BeginImmediate(i)
    \/ DeleteSnapshot(i)
    \/ InsertSnapshot(i)
    \/ InsertNodes(i)
    \/ InsertEdges(i)
    \/ VerifyProjection(i)
    \/ ProjectionMismatch(i)
    \/ Commit(i)
    \/ StorageFails(i)

Next ==
    \E i \in Indexer :
        \/ \E k \in Key : StartRun(i, k)
        \/ Progress(i)
        \/ Crash(i)

Spec == Init /\ [][Next]_vars

(* Every step of a run returns: statements are bounded by SQLite's busy    *)
(* timeout and analyses by timeout_ms.  Nobody has to start a run.         *)
Fairness == \A i \in Indexer : WF_vars(Progress(i))

FairSpec == Spec /\ Fairness

-----------------------------------------------------------------------------
(***************************************************************************)
(* Properties.                                                             *)
(***************************************************************************)

(* The node and edge rows of key k are the graph of its snapshot row.      *)
WholeAt(k) ==
    IF db[k].row = Absent
    THEN db[k] = EmptySlot
    ELSE /\ db[k].nodes = NodeRows(db[k].row.payload)
         /\ db[k].edges = EdgesOf[db[k].row.payload]

(* Whatever failed, crashed or raced, the committed node and edge rows of  *)
(* every key are exactly the graph of the payload in its snapshot row:     *)
(* never a partial replacement, never rows of two generations.             *)
WholeGenerations == \A k \in Key : WholeAt(k)

(* The rows of key k agree with the counts its certified payload declares. *)
ReconciledAt(k) ==
    (db[k].row # Absent /\ db[k].row.authority = "complete") =>
        /\ Cardinality(db[k].nodes) = Declared[db[k].row.payload].objects
        /\ Cardinality(db[k].edges) = Declared[db[k].row.payload].graph_edges

(* A snapshot that reports authority "complete" has as many graph rows as  *)
(* its completeness proof declares; a certified payload the builder cannot *)
(* project in full never replaces a snapshot.                              *)
CompleteMeansReconciled == \A k \in Key : ReconciledAt(k)

(* At most one run is inside a write transaction: the one that holds the   *)
(* lock.                                                                   *)
OneWriter ==
    \A i \in Indexer : pc[i] \in InTransaction <=> lock = i

(* Once a key has a snapshot, readers find one at every later moment, also *)
(* while it is being replaced (snapshot_summary relies on it).             *)
SnapshotNeverVanishes ==
    [][\A k \in Key : db[k].row # Absent => db'[k].row # Absent]_vars

(* A cache written by a newer release is never modified.                   *)
NewerCacheUntouched ==
    [][version > GRAPH_STORE_SCHEMA_VERSION => UNCHANGED <<version, db>>]_vars

(* Every run that has been started reaches an outcome, also when several   *)
(* runs compete for the write lock.                                        *)
EveryRunEnds ==
    \A i \in Indexer : pc[i] \notin Outcome ~> pc[i] \in Outcome

(* The write lock is given back, however the run that holds it ends, its   *)
(* process dying included: one run cannot lock the cache for ever.         *)
LockReleased == \A i \in Indexer : lock = i ~> lock # i

(***************************************************************************)
(* The inductive invariant.                                                *)
(***************************************************************************)

(* Runs that have passed the version check. *)
Admitted == {"migrate", "analyze", "begin"} \union InTransaction

(* The version check of a run stays valid: nothing raises the version of   *)
(* the file beyond this release.                                           *)
VersionGate ==
    \A i \in Indexer :
        pc[i] \in Admitted => version <= GRAPH_STORE_SCHEMA_VERSION

(* What the uncommitted rows are at each step of the replacement.          *)
WorkInProgress ==
    \A i \in Indexer :
        LET new == WholeSlot(payload[i], "complete", captured[i])
        IN  /\ pc[i] = "snapshot" => work = EmptySlot
            /\ pc[i] = "nodes" => work = [EmptySlot EXCEPT !.row = new.row]
            /\ pc[i] = "edges" => work = [new EXCEPT !.edges = {}]
            /\ pc[i] \in {"verify", "commit"} => work = new
            /\ pc[i] = "commit" => ProjectionMatches(i)

(* Every step of every run keeps the cache whole because the rows of an    *)
(* open transaction are, at each of its steps, exactly the part of the new *)
(* generation written so far.                                              *)
IInv ==
    /\ TypeOK
    /\ OneWriter
    /\ VersionGate
    /\ WorkInProgress
    /\ WholeGenerations
    /\ CompleteMeansReconciled

(***************************************************************************)
(* The cache implements the atomic cache: what a reader of the committed   *)
(* rows finds is the abstract store.                                       *)
(***************************************************************************)
Loaded(slot) ==
    IF slot.row = Absent THEN Absent
    ELSE [payload |-> slot.row.payload, authority |-> slot.row.authority,
          captured_at |-> slot.row.captured_at,
          objects |-> slot.nodes, relationships |-> slot.edges]

Reported(p) ==
    CASE p \in {"idle", "complete"} -> p
      [] p \in {"failed", "crashed"} -> "failed"
      [] OTHER -> "running"

Reconciled ==
    {c \in Catalog : /\ Cardinality(NodeRows(c)) = Declared[c].objects
                     /\ Cardinality(EdgesOf[c]) = Declared[c].graph_edges}

Atomic == INSTANCE AtomicCache
            WITH store <- [k \in Key |-> Loaded(db[k])],
                 status <- [i \in Indexer |-> Reported(pc[i])]

ImplementsAtomicCache == Atomic!Spec

=============================================================================
