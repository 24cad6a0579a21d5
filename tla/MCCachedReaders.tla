--------------------------- MODULE MCCachedReaders ---------------------------
(***************************************************************************)
(* Values for CachedReaders: one key; catalog S has one object, catalog L  *)
(* adds an object that sorts before it and an edge that joins the two; one *)
(* request lists a page, the other describes the object both have.         *)
(***************************************************************************)
EXTENDS CachedReaders, TLC

CONSTANTS S, L, k1, shop

MCAliasOf == k1 :> shop
MCNodesOf == (S :> {2}) @@ (L :> {1, 2})
MCEdgesOf == (S :> {}) @@ (L :> {<<1, 2>>})
MCDeclared == (S :> [objects |-> 1, graph_edges |-> 0])
                @@ (L :> [objects |-> 2, graph_edges |-> 1])

MCRequest ==
    {[tool |-> tool, selector |-> k1, filter |-> {1, 2}, object |-> 2,
      offset |-> 0, limit |-> 1] : tool \in {"list_objects",
                                             "describe_object"}}

=============================================================================
