--------------------------- MODULE MCSnapshotCache ---------------------------
(***************************************************************************)
(* Values for SnapshotCache: catalog A, a larger catalog B that shares an  *)
(* object with A, and catalog D, whose proof declares an edge the builder  *)
(* drops (a view that depends on a sequence).                              *)
(***************************************************************************)
EXTENDS SnapshotCache, TLC

CONSTANTS A, B, D, o1, o2

MCNodesOf == (A :> {o1}) @@ (B :> {o1, o2}) @@ (D :> {o2})
MCEdgesOf == (A :> {}) @@ (B :> {<<o1, o2>>}) @@ (D :> {})
MCDeclared == (A :> [objects |-> 1, graph_edges |-> 0])
           @@ (B :> [objects |-> 2, graph_edges |-> 1])
           @@ (D :> [objects |-> 1, graph_edges |-> 1])

=============================================================================
