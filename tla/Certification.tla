---------------------------- MODULE Certification ----------------------------
(***************************************************************************)
(* What happens to a snapshot an adapter has mapped: it is certified       *)
(* against the counts the adapter took of the rows it read, and the        *)
(* certified snapshot is projected into the graph store.                   *)
(*                                                                         *)
(* The adapter modules extend this module with the stages before; here the *)
(* mapping is anything.                                                    *)
(***************************************************************************)
EXTENDS CanonicalModel

VARIABLES
    snapshot,       \* CanonicalSchemaSnapshot of the adapter
    discovered,     \* its DiscoveryCounts
    stage,          \* where the snapshot is
    graph           \* the rows of the store: nodes and edges

pipelineVars == <<snapshot, discovered, stage, graph>>

(* Stages common to all adapters: "refused" is a failure before, "rejected" *)
(* one in the certification and "failed" one in the projection.            *)
LateStage == {"certify", "store", "stored", "refused", "rejected", "failed"}
Ended == stage \in {"stored", "refused", "rejected", "failed"}
Certified == stage \in {"store", "stored", "failed"}

EmptyGraph == [nodes |-> {}, edges |-> {}]
NoCounts == Counts([database |-> 0], [database_has_schema |-> 0])

PipelineInit(first) ==
    /\ snapshot = EmptySnapshot
    /\ discovered = NoCounts
    /\ stage = first
    /\ graph = EmptyGraph

(* A mapping step of an adapter: it fills its part of the snapshot or      *)
(* refuses the whole catalog.                                              *)
MappingStep(at, ok, result, then) ==
    /\ stage = at
    /\ IF ok THEN snapshot' = result /\ stage' = then
             ELSE stage' = "refused" /\ UNCHANGED snapshot
    /\ UNCHANGED <<discovered, graph>>

(* certify_schema_snapshot.                                                *)
Certify ==
    /\ stage = "certify"
    /\ stage' = IF /\ validate_canonical_schema_snapshot(snapshot)
                   /\ CountsReconciled(snapshot, discovered)
                THEN "store" ELSE "rejected"
    /\ UNCHANGED <<snapshot, discovered, graph>>

(* What the foreign keys of the edges and verify_projection_counts demand  *)
(* of the rows, inside the transaction.                                    *)
ProjectionHolds ==
    LET counts == certified_graph_projection_counts(snapshot) IN
        /\ EdgesHaveNodes(snapshot)
        /\ Cardinality(NodeRows(snapshot)) = counts.nodes
        /\ Cardinality(EdgeRows(snapshot)) = counts.edges

Projection == [nodes |-> NodeRows(snapshot), edges |-> EdgeRows(snapshot)]

(* Variant: the rows of a projection that is refused stay.                 *)
StoreNotRolledBack ==
    /\ stage = "store"
    /\ stage' = IF ProjectionHolds THEN "stored" ELSE "failed"
    /\ graph' = Projection
    /\ UNCHANGED <<snapshot, discovered>>

(* insert_certified_schema_snapshot_graph: one transaction, rolled back    *)
(* when an edge has no node to refer to or the counts disagree.            *)
Store ==
    /\ stage = "store"
    /\ IF ProjectionHolds
       THEN stage' = "stored" /\ graph' = Projection
       ELSE stage' = "failed" /\ UNCHANGED graph
    /\ UNCHANGED <<snapshot, discovered>>

-----------------------------------------------------------------------------
(* Properties.                                                             *)

PipelineTypeOK ==
    /\ IsSnapshot(snapshot)
    /\ discovered.objects \in [ObjectCategory -> Nat]
    /\ discovered.relationships \in [RelationshipCategory -> Nat]
    /\ stage # "stored" => graph = EmptyGraph

(* A certified snapshot never meets the foreign keys of the edge table.    *)
(* There the store would refuse it after a complete analysis, and the run  *)
(* would fail with SQLite's error: every reference the builder makes an    *)
(* edge of has to be one the validators resolve.                           *)
CertifiedEdgesHaveNodes == Certified => EdgesHaveNodes(snapshot)

(* The only certified snapshots that cannot be stored are those with a     *)
(* dependency that has no edge type: it is counted and not projected.  In  *)
(* all others no upsert hits a row of the same projection, which would     *)
(* leave fewer rows than were counted.                                     *)
OnlyUnprojectedDependenciesFail ==
    stage = "failed" =>
        \E kind \in {"view", "routine"} : \E v \in snapshot[kind] :
            \E d \in v.depends_on : d.kind \notin Projected(kind)

(* What is stored is what was counted in the catalog: as many nodes as     *)
(* discovered objects, and two edges for every foreign key pair and every  *)
(* trigger, one for every other relationship.                              *)
StoredIsDiscovered ==
    stage = "stored" =>
        /\ Cardinality(graph.nodes) = Total(discovered.objects)
        /\ Cardinality(graph.edges)
              = Total(discovered.relationships)
                  + discovered.relationships.foreign_key_column_pair
                  + discovered.relationships.trigger_target

=============================================================================
